---------------------------- MODULE Spec2Model ----------------------------
(***************************************************************************)
(* A model of the ingestion pipeline of poverty-nyc:                       *)
(*   - the paginated fetch   (src/ingestion/nyc_open_data_fetcher.py)      *)
(*   - the chunked fetch     (src/ingestion/census_fetcher.py)             *)
(*   - a run of ingest_dataset with its DataStorage and the database       *)
(*                           (scripts/ingest_data.py, ingestion/storage.py)*)
(*   - transform and validation of a raw batch                             *)
(*                           (ingestion/parser.py, datasets)               *)
(*   - ingest_all_datasets   (scripts/ingest_data.py)                      *)
(* Each component has its own specification (SpecPaged, SpecChunk, Spec,   *)
(* SpecTransform, SpecAll); the variables of the other components stay at  *)
(* their idle values.                                                      *)
(***************************************************************************)
EXTENDS Integers, Sequences, FiniteSets, Bags, TLC

VARIABLES
    \* ---- paginated fetch: NYCOpenDataFetcher.fetch_from_api ----
    pg_pc,        \* "fetching" | "returned" | "failed"
    page_number,  \* the loop's page counter
    attempt,      \* _make_request's loop index for the current call
    all_data,     \* the rows collected so far
    pg_error,     \* the exception that left fetch_from_api
    responses,    \* log: what each request for the current page got
    sleeps,       \* log: the time.sleep calls of the current _make_request
    requests,     \* log: number of session.post calls so far
    served,       \* log: the bodies of the successful responses, in order
    \* ---- census fetch: CensusFetcher.fetch_from_api, _fetch_by_chunks ----
    ck_pc,        \* chunked: "fetching" | "returned" | "failed"; one request
                  \* for the whole geography: "fetching_all" |
                  \* "returned_all" | "failed_all"
    ck_filters,   \* the filters argument of fetch_from_api
    ck_config,    \* census_config.filters
    zip_codes,    \* the key list handed to _fetch_by_chunks
    ck_i,         \* the loop variable i (offset of the current chunk)
    ck_all_data,  \* the chunk frames collected so far
    ck_result,    \* the frame returned, None before that
    ck_requests,  \* log: the key list of each request issued
    ck_outcomes,  \* log: the response to each request (ok and its body, or not ok)
    ck_whole,     \* log: the responses to requests for the whole geography
    \* ---- one run of ingest_dataset, DataStorage and the database ----
    run_pc,         \* "idle" | "fetch" | "parse" | "store" | "postgis_ready" |
                    \* "metadata_ready" | "provisioned" | "written" | "finally"
    run_result,     \* how the run ended
    run_error,      \* the kind of exception raised in the run, None if none
    runs,           \* number of runs started
    dry_run,        \* the dry_run argument of the run
    schema,         \* parser.transformer.get_schema()
    unique_columns, \* dataset_config.validation.unique_keys
    transformer,    \* dataset_entry.transformer_class
    df_raw,         \* the batch the fetcher returned
    df,             \* df_transformed, the canonical batch of the run
    storage,        \* whether the run has constructed its DataStorage
    metadata,       \* DataStorage.metadata: the tables defined in it
    engine,         \* DataStorage.engine: 0 for None, else the engine's number
    engine_creates, \* log: create_engine calls of this DataStorage
    engine_used,    \* log: the engines the storage operations have used
    closed,         \* log: DataStorage.close was called
    fetched,        \* log: the run has asked the source for data
    statements,     \* log: the run has executed a statement on the database
    exported,       \* log: the run has written its Parquet file
    db_tables,      \* the tables that exist in the database
    tbl_struct,     \* columns, indexes and constraints of the dataset's table
    tbl_rows,       \* the rows of the dataset's table (a bag of rows)
    tbl_serial,     \* last value drawn from the table's SERIAL sequence
    ledger,         \* the dataset's row of dataset_metadata
    ledger_rows,    \* number of rows of dataset_metadata with the dataset's id
    steps,          \* log: the steps of the run that completed, in order
    pre_rows,       \* log: tbl_rows as they were before the run's write
    \* ---- transform and validation: DataParser.parse ----
    tr_pc,          \* "idle" | "raw" | "transformed" | "validated" | "rejected"
    tr_class,       \* the transformer class of the parser
    tr_rules,       \* the rules of the configuration that validation reads
    tr_raw,         \* the raw batch handed to parse
    tr_out,         \* transformed_df
    tr_warnings,    \* log: the warnings of _validate_schema
    \* ---- ingest_all_datasets ----
    all_pc,           \* "idle" | "looping" | "done"
    registry,         \* the registry: the enabled flag of each entry
    enabled_datasets, \* the keys the loop runs over
    all_i,            \* position of the loop in enabled_datasets
    attempts,         \* log: the calls of ingest_dataset and how they ended
    \* ---- download fetch: ShapefileFetcher.fetch_data, UrlFetcher.fetch_data ----
    dl_pc,         \* "idle" | "ready" (no call running) | "request" | "write" |
                   \* "extract" | "load"
    dl_kind,       \* "shapefile" | "url": the fetcher class
    dl_force,      \* the force argument of the call
    dl_dir,        \* the dataset's working directory: the content of each file
    dl_calls,      \* number of calls of fetch_data so far
    dl_outcome,    \* how the last call ended: "returned" or the error raised
    dl_attempted,  \* log: the call has entered the download branch
    dl_before,     \* log: dl_dir as it was when the call began
    dl_loaded,     \* log: the content the last load read
    dl_failed      \* log: the calls whose download failed

pagedVars == <<pg_pc, page_number, attempt, all_data, pg_error,
               responses, sleeps, requests, served>>

chunkVars == <<ck_pc, ck_filters, ck_config, zip_codes, ck_i, ck_all_data,
               ck_result, ck_requests, ck_outcomes, ck_whole>>

\* the configuration of the dataset; the dataset is fixed over a behaviour,
\* the type descriptors of its schema are read anew by every run
configVars == <<schema, unique_columns, transformer>>

\* the DataStorage object of the run and the logs of what the run has done
storageVars == <<storage, metadata, engine, engine_creates, engine_used,
                 closed, statements, exported>>

\* the database
dbVars == <<db_tables, tbl_struct, tbl_rows, tbl_serial, ledger, ledger_rows>>

storeVars == <<run_pc, run_result, run_error, runs, dry_run, configVars,
               df_raw, df, fetched, storageVars, dbVars, pre_rows, steps>>

transformVars == <<tr_pc, tr_class, tr_rules, tr_raw, tr_out, tr_warnings>>

allVars == <<all_pc, registry, enabled_datasets, all_i, attempts>>

downloadVars == <<dl_pc, dl_kind, dl_force, dl_dir, dl_calls, dl_outcome,
                  dl_attempted, dl_before, dl_loaded, dl_failed>>

vars == <<pagedVars, chunkVars, storeVars, transformVars, allVars, downloadVars>>

\* what the steps of one component leave alone
notPaged == <<chunkVars, storeVars, transformVars, allVars, downloadVars>>
notChunk == <<pagedVars, storeVars, transformVars, allVars, downloadVars>>
notStore == <<pagedVars, chunkVars, transformVars, allVars, downloadVars>>
notTransform == <<pagedVars, chunkVars, storeVars, allVars, downloadVars>>
notAll == <<pagedVars, chunkVars, storeVars, transformVars, downloadVars>>
notDownload == <<pagedVars, chunkVars, storeVars, transformVars, allVars>>

(***************************************************************************)
(* Bounds of the model.                                                    *)
(***************************************************************************)
\* page_size: rows the fetcher asks for per page (config api.limit)
PageSize == 2
\* the source is exhausted at this page at the latest
MaxPages == 3
\* longest key list handed to the chunked fetch
MaxKeys == 101
\* most rows in one canonical batch
MaxBatch == 2
\* most runs of ingest_dataset in one behaviour
MaxRuns == 3
\* most rows in one raw batch handed to parse
MaxRaw == 2
\* most entries in the registry
MaxDatasets == 3
\* most calls of fetch_data on one working directory
MaxCalls == 3

(***************************************************************************)
(* Program constants.                                                      *)
(***************************************************************************)
max_retries == 3
DefaultRetryAfter == 60
chunk_size == 50

\* values a Retry-After header carries when it is present
RetryAfterHeaders == {1, 5}

\* the status codes for which response.raise_for_status() raises HTTPError
\* (line 160) and that are not the 429 of line 154: client and server errors
ErrorStatuses == {"404", "500"}

None == "None"

Min(a, b) == IF a < b THEN a ELSE b

RECURSIVE Pow2(_)
Pow2(n) == IF n = 0 THEN 1 ELSE 2 * Pow2(n - 1)

RECURSIVE Flatten(_)
Flatten(ss) == IF ss = <<>> THEN <<>> ELSE Head(ss) \o Flatten(Tail(ss))

(***************************************************************************)
(* Paginated fetch.                                                        *)
(***************************************************************************)
\* A response body is a JSON list, an object with a 'data' field, or
\* anything else; row j of page p is <<p, j>>.
PageRows(p, n) == [j \in 1..n |-> <<p, j>>]

Bodies(p) ==
    LET maxn == IF p >= MaxPages THEN PageSize - 1 ELSE PageSize
    IN  [kind : {"list", "dict"}, rows : {PageRows(p, n) : n \in 0..maxn}]
        \cup {[kind |-> "other", rows |-> <<>>]}

\* fetch_from_api lines 97-103: the records of a decoded body
Records(data) ==
    IF data.kind = "dict" THEN data.rows
    ELSE IF data.kind = "list" THEN data.rows
    ELSE <<>>

PagedInit ==
    /\ pg_pc = "fetching"
    /\ page_number = 1
    /\ attempt = 0
    /\ all_data = <<>>
    /\ pg_error = None
    /\ responses = <<>>
    /\ sleeps = <<>>
    /\ requests = 0
    /\ served = <<>>

\* no paginated fetch is running
PagedIdle ==
    /\ pg_pc = "returned"
    /\ page_number = 1
    /\ attempt = 0
    /\ all_data = <<>>
    /\ pg_error = None
    /\ responses = <<>>
    /\ sleeps = <<>>
    /\ requests = 0
    /\ served = <<>>

\* RateLimited with the 429 answered outside the attempt budget: the request
\* is repeated without counting
RateLimited_FreeRetry ==
    /\ pg_pc = "fetching"
    /\ \E retry_after \in RetryAfterHeaders \cup {DefaultRetryAfter} :
          sleeps' = Append(sleeps, retry_after)
    /\ requests' = requests + 1
    /\ responses' = Append(responses, "429")
    /\ UNCHANGED <<pg_pc, pg_error, attempt, page_number, all_data, served>>
    /\ UNCHANGED notPaged

\* _make_request lines 154-158: a 429 sleeps Retry-After seconds and goes on
\* to the next iteration of the for loop; falling out of the loop raises
\* RequestException("Max retries exceeded") (line 179), which fetch_from_api
\* re-raises (lines 117-119).
RateLimited ==
    /\ pg_pc = "fetching"
    /\ \E retry_after \in RetryAfterHeaders \cup {DefaultRetryAfter} :
          sleeps' = Append(sleeps, retry_after)
    /\ requests' = requests + 1
    /\ responses' = Append(responses, "429")
    /\ IF attempt + 1 < max_retries
       THEN /\ attempt' = attempt + 1
            /\ UNCHANGED <<pg_pc, pg_error>>
       ELSE /\ pg_pc' = "failed"
            /\ pg_error' = "MaxRetriesExceeded"
            /\ UNCHANGED attempt
    /\ UNCHANGED <<page_number, all_data, served>>
    /\ UNCHANGED notPaged

\* RequestFailed with the backoff written 2 * attempt for 2 ** attempt
RequestFailed_LinearBackoff(exc) ==
    /\ pg_pc = "fetching"
    /\ requests' = requests + 1
    /\ responses' = Append(responses, exc)
    /\ IF attempt < max_retries - 1
       THEN /\ sleeps' = Append(sleeps, 2 * attempt)
            /\ attempt' = attempt + 1
            /\ UNCHANGED <<pg_pc, pg_error>>
       ELSE /\ pg_pc' = "failed"
            /\ pg_error' = exc
            /\ UNCHANGED <<attempt, sleeps>>
    /\ UNCHANGED <<page_number, all_data, served>>
    /\ UNCHANGED notPaged

\* RequestFailed with a client error (4xx) raised at once, whatever the
\* attempt
RequestFailed_ClientErrorFatal(exc) ==
    /\ pg_pc = "fetching"
    /\ requests' = requests + 1
    /\ responses' = Append(responses, exc)
    /\ IF attempt < max_retries - 1 /\ exc # "404"
       THEN /\ sleeps' = Append(sleeps, Pow2(attempt))
            /\ attempt' = attempt + 1
            /\ UNCHANGED <<pg_pc, pg_error>>
       ELSE /\ pg_pc' = "failed"
            /\ pg_error' = exc
            /\ UNCHANGED <<attempt, sleeps>>
    /\ UNCHANGED <<page_number, all_data, served>>
    /\ UNCHANGED notPaged

\* _make_request lines 163-177: a timeout or another RequestException
\* (connection error, or the HTTPError of raise_for_status) backs off
\* 2 ** attempt seconds and retries while attempt < max_retries - 1, and
\* is raised otherwise.
RequestFailed(exc) ==
    /\ pg_pc = "fetching"
    /\ requests' = requests + 1
    /\ responses' = Append(responses, exc)
    /\ IF attempt < max_retries - 1
       THEN /\ sleeps' = Append(sleeps, Pow2(attempt))
            /\ attempt' = attempt + 1
            /\ UNCHANGED <<pg_pc, pg_error>>
       ELSE /\ pg_pc' = "failed"
            /\ pg_error' = exc
            /\ UNCHANGED <<attempt, sleeps>>
    /\ UNCHANGED <<page_number, all_data, served>>
    /\ UNCHANGED notPaged

TimedOut == RequestFailed("Timeout")

RequestError == RequestFailed("RequestException")

\* line 160: raise_for_status raises HTTPError, a RequestException, which
\* the handler of lines 171-177 catches
HttpError == \E status \in ErrorStatuses : RequestFailed(status)

\* PageReceived without the short-page test of lines 112-113: only a page
\* without records ends the loop
PageReceived_NoShortStop ==
    /\ pg_pc = "fetching"
    /\ \E data \in Bodies(page_number) :
        LET records == Records(data) IN
        /\ served' = Append(served, [page |-> page_number, body |-> data,
                                     req |-> requests + 1])
        /\ IF records = <<>>
           THEN /\ pg_pc' = "returned"
                /\ UNCHANGED <<all_data, page_number, attempt, responses, sleeps>>
           ELSE /\ all_data' = all_data \o records
                /\ page_number' = page_number + 1
                /\ attempt' = 0
                /\ responses' = <<>>
                /\ sleeps' = <<>>
                /\ UNCHANGED pg_pc
    /\ requests' = requests + 1
    /\ UNCHANGED pg_error
    /\ UNCHANGED notPaged

\* _make_request line 161 returns the response; fetch_from_api lines 94-115
\* decode it, stop on no records or on a short page, and otherwise go on to
\* the next page.
PageReceived ==
    /\ pg_pc = "fetching"
    /\ \E data \in Bodies(page_number) :
        LET records == Records(data) IN
        /\ served' = Append(served, [page |-> page_number, body |-> data,
                                     req |-> requests + 1])
        /\ IF records = <<>>
           THEN /\ pg_pc' = "returned"
                /\ UNCHANGED <<all_data, page_number, attempt, responses, sleeps>>
           ELSE /\ all_data' = all_data \o records
                /\ IF Len(records) < PageSize
                   THEN /\ pg_pc' = "returned"
                        /\ UNCHANGED <<page_number, attempt, responses, sleeps>>
                   ELSE /\ page_number' = page_number + 1
                        /\ attempt' = 0
                        /\ responses' = <<>>
                        /\ sleeps' = <<>>
                        /\ UNCHANGED pg_pc
    /\ requests' = requests + 1
    /\ UNCHANGED pg_error
    /\ UNCHANGED notPaged

PagedNext ==
    \/ RateLimited
    \/ TimedOut
    \/ RequestError
    \/ HttpError
    \/ PageReceived

(***************************************************************************)
(* Chunked fetch.                                                          *)
(***************************************************************************)
\* A census response is a JSON list whose first entry is the header and
\* whose other entries are the rows; the row of key z is [zip |-> z].
Header == [names |-> "zip code tabulation area"]

RowsOf(keys) == [j \in 1..Len(keys) |-> [zip |-> keys[j]]]

\* What the server may answer for a chunk: a row for every key, rows for
\* all keys but the first, the header alone, or an empty list.
ChunkBodies(chunk) ==
    { <<Header>> \o RowsOf(chunk),
      <<Header>> \o RowsOf(Tail(chunk)),
      <<Header>>,
      <<>> }

\* Slice with the end of the slice one short
Slice_OneShort(keys, i) == SubSeq(keys, i + 1, Min(i + chunk_size - 1, Len(keys)))

\* zip_codes[i:i + chunk_size] (line 96)
Slice(keys, i) == SubSeq(keys, i + 1, Min(i + chunk_size, Len(keys)))

\* CensusFetcher._make_request lines 132-141: the frame of a decoded body
Frame(data) == IF Len(data) < 2 THEN <<>> ELSE Tail(data)

\* A filters value is None (given FALSE) or a dict: its keys and, under the
\* key 'zip_codes', a list of zip codes.
NoFilters == [given |-> FALSE, keys |-> {}, zip_codes |-> <<>>]

EmptyFilters == [given |-> TRUE, keys |-> {}, zip_codes |-> <<>>]

\* the filters of the model: None, {}, {'state': ...} and dicts with a
\* 'zip_codes' list of one of the lengths counts, keys base+1, base+2, ...
FilterDicts(base, counts) ==
    {NoFilters, EmptyFilters,
     [given |-> TRUE, keys |-> {"state"}, zip_codes |-> <<>>]}
    \cup {[given |-> TRUE, keys |-> ks, zip_codes |-> [j \in 1..n |-> base + j]] :
             ks \in {{"zip_codes"}, {"zip_codes", "state"}}, n \in counts}

\* lengths of the configured zip code list: empty, one chunk, two chunks
ConfigKeyCounts == {0, 1, chunk_size + 1}

\* the caller's lists hold the keys 1, 2, ..., the configured lists the
\* keys 1001, 1002, ...
CallerFilters == FilterDicts(0, 0..MaxKeys)

ConfigFilters == FilterDicts(1000, ConfigKeyCounts)

\* the truth value Python gives a filters value: None and {} are false
Truthy(f) == f.given /\ f.keys # {}

\* active_filters with the configured zip codes added to caller filters
\* that have none
active_filters_Merged(filters, config) ==
    IF Truthy(filters)
    THEN IF "zip_codes" \in filters.keys \/ "zip_codes" \notin config.keys
         THEN filters
         ELSE [given |-> TRUE, keys |-> filters.keys \cup {"zip_codes"},
               zip_codes |-> config.zip_codes]
    ELSE IF config.given THEN config ELSE EmptyFilters

\* fetch_from_api lines 66-67: config_filters = census_config.filters or {};
\* active_filters = filters if filters else config_filters
active_filters(filters, config) ==
    IF Truthy(filters) THEN filters
    ELSE IF Truthy(config) THEN config ELSE EmptyFilters

\* line 69: if active_filters and "zip_codes" in active_filters
Chunked(active) == Truthy(active) /\ "zip_codes" \in active.keys

\* the geography of the model, as a request for all of it answers
AllZctas == <<1, 1001, 2001>>

ChunkIdle ==
    /\ ck_pc = "returned"
    /\ ck_filters = NoFilters
    /\ ck_config = NoFilters
    /\ ck_whole = <<>>
    /\ zip_codes = <<>>
    /\ ck_i = 0
    /\ ck_all_data = <<>>
    /\ ck_result = <<>>
    /\ ck_requests = <<>>
    /\ ck_outcomes = <<>>

\* fetch_from_api lines 64-78 and _fetch_by_chunks lines 92-95
ChunkInit ==
    /\ ck_filters \in CallerFilters
    /\ ck_config \in ConfigFilters
    /\ LET active == active_filters(ck_filters, ck_config) IN
       IF Chunked(active)
       THEN /\ ck_pc = "fetching"
            /\ zip_codes = active.zip_codes
       ELSE /\ ck_pc = "fetching_all"
            /\ zip_codes = <<>>
    /\ ck_whole = <<>>
    /\ ck_i = 0
    /\ ck_all_data = <<>>
    /\ ck_result = None
    /\ ck_requests = <<>>
    /\ ck_outcomes = <<>>

\* one iteration of the loop of lines 95-108 whose request succeeds
ChunkReceived ==
    /\ ck_pc = "fetching"
    /\ ck_i < Len(zip_codes)
    /\ LET chunk == Slice(zip_codes, ck_i) IN
       /\ ck_requests' = Append(ck_requests, chunk)
       /\ \E data \in ChunkBodies(chunk) :
             /\ ck_all_data' = Append(ck_all_data, Frame(data))
             /\ ck_outcomes' = Append(ck_outcomes, [ok |-> TRUE, data |-> data])
    /\ ck_i' = ck_i + chunk_size
    /\ UNCHANGED <<ck_pc, ck_filters, ck_config, zip_codes, ck_result, ck_whole>>
    /\ UNCHANGED notChunk

\* ChunkFailed with the error logged and swallowed: the loop goes on
ChunkFailed_Swallowed ==
    /\ ck_pc = "fetching"
    /\ ck_i < Len(zip_codes)
    /\ ck_requests' = Append(ck_requests, Slice(zip_codes, ck_i))
    /\ ck_outcomes' = Append(ck_outcomes, [ok |-> FALSE, data |-> <<>>])
    /\ ck_i' = ck_i + chunk_size
    /\ UNCHANGED <<ck_pc, ck_filters, ck_config, zip_codes, ck_all_data,
                   ck_result, ck_whole>>
    /\ UNCHANGED notChunk

\* one iteration whose request raises (lines 109-111, and lines 129-130 of
\* _make_request): the error is logged and raised again
ChunkFailed ==
    /\ ck_pc = "fetching"
    /\ ck_i < Len(zip_codes)
    /\ ck_requests' = Append(ck_requests, Slice(zip_codes, ck_i))
    /\ ck_outcomes' = Append(ck_outcomes, [ok |-> FALSE, data |-> <<>>])
    /\ ck_pc' = "failed"
    /\ UNCHANGED <<ck_filters, ck_config, zip_codes, ck_i, ck_all_data,
                   ck_result, ck_whole>>
    /\ UNCHANGED notChunk

\* lines 113-116, after the loop: the frames are concatenated in list order
ChunksConcatenated ==
    /\ ck_pc = "fetching"
    /\ ck_i >= Len(zip_codes)
    /\ ck_result' = IF ck_all_data = <<>> THEN <<>> ELSE Flatten(ck_all_data)
    /\ ck_pc' = "returned"
    /\ UNCHANGED <<ck_filters, ck_config, zip_codes, ck_i, ck_all_data,
                   ck_requests, ck_outcomes, ck_whole>>
    /\ UNCHANGED notChunk

\* fetch_from_api line 78: one request for the whole geography, answered
UnchunkedReceived ==
    /\ ck_pc = "fetching_all"
    /\ \E data \in ChunkBodies(AllZctas) :
          /\ ck_whole' = Append(ck_whole, [ok |-> TRUE, data |-> data])
          /\ ck_result' = Frame(data)
    /\ ck_pc' = "returned_all"
    /\ UNCHANGED <<ck_filters, ck_config, zip_codes, ck_i, ck_all_data,
                   ck_requests, ck_outcomes>>
    /\ UNCHANGED notChunk

\* fetch_from_api line 78: the request raises (_make_request lines 129-130)
UnchunkedFailed ==
    /\ ck_pc = "fetching_all"
    /\ ck_whole' = Append(ck_whole, [ok |-> FALSE, data |-> <<>>])
    /\ ck_pc' = "failed_all"
    /\ UNCHANGED <<ck_filters, ck_config, zip_codes, ck_i, ck_all_data,
                   ck_result, ck_requests, ck_outcomes>>
    /\ UNCHANGED notChunk

ChunkNext ==
    \/ ChunkReceived
    \/ ChunkFailed
    \/ ChunksConcatenated
    \/ UnchunkedReceived
    \/ UnchunkedFailed

(***************************************************************************)
(* Store step.                                                             *)
(***************************************************************************)
\* the values of the columns of a canonical batch (none of them NULL)
Years == {2023}
Zips == {10001, 90210}
\* src.constants.NYC_ZIP_CODES, as far as the zip codes of the model go
NYC_ZIP_CODES == {10001}
Incomes == {50000, 52000}
\* food_supply_gaps: neighbourhood codes (numbered) and ranks
NtaCodes == {1, 2}
Ranks == {1, 2}

ColValues(c) ==
    CASE c = "year" -> Years
      [] c = "zip_code" -> Zips
      [] c = "income" -> Incomes
      [] c = "nta_code" -> NtaCodes
      [] c = "rank" -> Ranks

\* The datasets of the model: a schema as create_table_from_schema reads it
\* (columns, the SERIAL ones among them, the primary_key ones, the
\* UNIQUE(...) constraints, the indexes, whether every type descriptor can
\* be parsed), the unique_keys of the dataset's validation rules and the
\* transformer class of the registry entry.
Datasets ==
    { \* a schema from the configuration: the unique key is the primary key
      [columns |-> {"year", "zip_code", "income"}, serial |-> {},
       primary_key |-> {"year", "zip_code"}, constraints |-> {},
       indexes |-> {}, bad_type |-> FALSE, unknown_type |-> FALSE,
       unique_keys |-> {"year", "zip_code"},
       transformer |-> "CensusACSTransformer"],
      \* food_supply_gaps: SERIAL primary key, UNIQUE constraint, indexes
      [columns |-> {"id", "year", "nta_code", "rank"}, serial |-> {"id"},
       primary_key |-> {"id"}, constraints |-> {{"year", "nta_code"}},
       indexes |-> {{"year"}, {"nta_code"}, {"rank"}}, bad_type |-> FALSE, unknown_type |-> FALSE,
       unique_keys |-> {"year", "nta_code"},
       transformer |-> "FoodSupplyGapTransformer"],
      \* nothing but the key column, which is the primary key; the
      \* transformer keeps the rows of New York City
      [columns |-> {"zip_code"}, serial |-> {},
       primary_key |-> {"zip_code"}, constraints |-> {},
       indexes |-> {}, bad_type |-> FALSE, unknown_type |-> FALSE,
       unique_keys |-> {"zip_code"},
       transformer |-> "CensusZctas2020Transformer"],
      \* unique keys in the validation rules, no constraint in the schema
      [columns |-> {"year", "zip_code", "income"}, serial |-> {},
       primary_key |-> {}, constraints |-> {},
       indexes |-> {}, bad_type |-> FALSE, unknown_type |-> FALSE,
       unique_keys |-> {"year", "zip_code"},
       transformer |-> "CensusACSTransformer"],
      \* no unique key at all
      [columns |-> {"year", "zip_code", "income"}, serial |-> {},
       primary_key |-> {}, constraints |-> {},
       indexes |-> {}, bad_type |-> FALSE, unknown_type |-> FALSE,
       unique_keys |-> {},
       transformer |-> "CensusACSTransformer"],
      \* a type descriptor whose arguments are not integers, "NUMERIC(10.5)"
      [columns |-> {"year", "zip_code", "income"}, serial |-> {},
       primary_key |-> {"year", "zip_code"}, constraints |-> {},
       indexes |-> {}, bad_type |-> TRUE, unknown_type |-> FALSE,
       unique_keys |-> {"year", "zip_code"},
       transformer |-> "CensusACSTransformer"],
      \* an index on a column that the column mapping does not declare
      [columns |-> {"year", "zip_code", "income"}, serial |-> {},
       primary_key |-> {"year", "zip_code"}, constraints |-> {},
       indexes |-> {{"borough"}}, bad_type |-> FALSE, unknown_type |-> FALSE,
       unique_keys |-> {"year", "zip_code"},
       transformer |-> "CensusACSTransformer"],
      \* a UNIQUE constraint that names an undeclared column
      [columns |-> {"year", "zip_code", "income"}, serial |-> {},
       primary_key |-> {}, constraints |-> {{"year", "borough"}},
       indexes |-> {}, bad_type |-> FALSE, unknown_type |-> FALSE,
       unique_keys |-> {"year", "zip_code"},
       transformer |-> "CensusACSTransformer"] }

\* the columns that an index or a UNIQUE constraint of the schema names and
\* the column mapping does not declare
Undeclared(sch) == UNION (sch.indexes \cup sch.constraints) \ sch.columns

\* the columns of a canonical batch: those of the schema that the server
\* does not generate
BatchColumns(sch) == sch.columns \ sch.serial

AllValues == Years \cup Zips \cup Incomes \cup NtaCodes \cup Ranks

RowsOver(cols) ==
    {r \in [cols -> AllValues] : \A c \in cols : r[c] \in ColValues(c)}

Batches(sch) == UNION {[1..n -> RowsOver(BatchColumns(sch))] : n \in 0..MaxBatch}

\* the unique indexes of the table that create_table_from_schema defines:
\* the primary key (lines 131-132) and every UNIQUE(...) constraint
\* (lines 159-167)
UniqueIndexes(sch) ==
    sch.constraints \cup (IF sch.primary_key = {} THEN {} ELSE {sch.primary_key})

\* what metadata.create_all creates for the Table object of lines 173-178
TableStructure(sch) ==
    [columns |-> sch.columns, primary_key |-> sch.primary_key,
     uniques |-> sch.constraints, indexes |-> sch.indexes]

\* the structure of a table that does not exist
NoTable == [columns |-> {}, primary_key |-> {}, uniques |-> {}, indexes |-> {}]

\* the ledger before the dataset's first row is written to it
NoLedger == [record_count |-> 0, status |-> "absent"]

KeyOf(r, K) == [c \in K |-> r[c]]

\* the rows of a batch at the positions in keep, in batch order
RECURSIVE Pick(_, _, _)
Pick(rows, keep, i) ==
    IF i > Len(rows) THEN <<>>
    ELSE (IF i \in keep THEN <<rows[i]>> ELSE <<>>) \o Pick(rows, keep, i + 1)

\* df.drop_duplicates(subset=..., keep='last'): a row stays when no later
\* row has its key; the rows that stay keep their order
drop_duplicates(rows, subset) ==
    Pick(rows, {i \in 1..Len(rows) :
                  \A j \in (i + 1)..Len(rows) :
                     KeyOf(rows[j], subset) # KeyOf(rows[i], subset)}, 1)

LexLess(a, b) == a[1] < b[1] \/ (a[1] = b[1] /\ a[2] < b[2])

\* df.sort_values([c1, c2]): keys[i] is the pair of sort values of rows[i];
\* the sort on two columns is stable
sort_values(rows, keys) ==
    LET n == Len(rows)
        pos(i) == 1 + Cardinality({j \in 1..n :
                         \/ LexLess(keys[j], keys[i])
                         \/ keys[j] = keys[i] /\ j < i})
    IN  [p \in 1..n |-> rows[CHOOSE i \in 1..n : pos(i) = p]]

\* FoodSupplyGapTransformer.transform lines 74-81 on cleaned rows
FoodSupplyGapRows(rows) ==
    LET kept == drop_duplicates(rows, {"year", "nta_code"})
    IN  sort_values(kept, [i \in 1..Len(kept) |-> <<kept[i]["year"], kept[i]["rank"]>>])

\* CensusZctas2020Transformer.transform line 28: the rows of New York City
Zctas2020Rows(rows) ==
    Pick(rows, {i \in 1..Len(rows) : rows[i]["zip_code"] \in NYC_ZIP_CODES}, 1)

\* what the transformer of a dataset does with the rows of a batch whose
\* cells are clean already: CensusACSTransformer.transform neither drops
\* nor reorders rows
TransformRows(class, rows) ==
    CASE class = "FoodSupplyGapTransformer" -> FoodSupplyGapRows(rows)
      [] class = "CensusZctas2020Transformer" -> Zctas2020Rows(rows)
      [] OTHER -> rows

\* upsert_data with an update_dict that is always empty
update_dict_Empty(sch, K) == {}

\* upsert_data lines 269-273: every column of the table outside unique_columns
update_dict(sch, K) == {c \in sch.columns : c \notin K}

\* The row the INSERT proposes for a batch row: the batch's values, and the
\* next sequence value for a SERIAL column the batch does not carry.
Proposed(sch, r, serial) ==
    [c \in sch.columns |-> IF c \in sch.serial THEN serial + 1 ELSE r[c]]

NextSerial(sch, serial) == IF sch.serial = {} THEN serial ELSE serial + 1

\* One row of INSERT ... ON CONFLICT (K) DO UPDATE SET upd = excluded.upd,
\* or DO NOTHING when upd is empty (lines 275-284).  st holds the rows, the
\* sequence, the rows this statement has inserted or updated, and whether
\* the statement is still without error: updating a row the statement has
\* already touched is an error.
UpsertRow(st, sch, K, upd, r) ==
    LET p == Proposed(sch, r, st.serial)
        hits == {x \in BagToSet(st.rows) : KeyOf(x, K) = KeyOf(p, K)}
        next == [st EXCEPT !.serial = NextSerial(sch, st.serial)]
    IN  IF hits = {}
        THEN [next EXCEPT !.rows = @ (+) SetToBag({p}),
                          !.touched = @ \cup {p}]
        ELSE LET old == CHOOSE x \in hits : TRUE
                 new == [c \in sch.columns |-> IF c \in upd THEN p[c] ELSE old[c]]
             IN  IF upd = {} THEN next
                 ELSE IF old \in st.touched THEN [next EXCEPT !.ok = FALSE]
                 ELSE [next EXCEPT
                         !.rows = (@ (-) SetToBag({old})) (+) SetToBag({new}),
                         !.touched = @ \cup {new}]

RECURSIVE UpsertRows(_, _, _, _, _, _)
UpsertRows(st, sch, K, upd, batch, i) ==
    IF i > Len(batch) \/ ~st.ok THEN st
    ELSE UpsertRows(UpsertRow(st, sch, K, upd, batch[i]), sch, K, upd, batch, i + 1)

\* conn.execute(upsert_stmt) (line 286): the statement needs a unique index
\* on exactly the conflict columns, and is all or nothing for the rows;
\* sequence values drawn stay drawn.
UpsertStatement(rows, serial, sch, K, batch) ==
    IF K \notin UniqueIndexes(sch)
    THEN [ok |-> FALSE, rows |-> rows, serial |-> serial]
    ELSE LET st == UpsertRows([ok |-> TRUE, rows |-> rows, serial |-> serial,
                               touched |-> {}],
                              sch, K, update_dict(sch, K), batch, 1)
         IN  [ok |-> st.ok,
              rows |-> IF st.ok THEN st.rows ELSE rows,
              serial |-> st.serial]

\* One row of the plain INSERT of df.to_sql: a unique index rejects a row
\* that repeats a stored one.
InsertRow(st, sch, r) ==
    LET p == Proposed(sch, r, st.serial)
        next == [st EXCEPT !.serial = NextSerial(sch, st.serial)]
    IN  IF \E K \in UniqueIndexes(sch) : \E x \in BagToSet(st.rows) :
              KeyOf(x, K) = KeyOf(p, K)
        THEN [next EXCEPT !.ok = FALSE]
        ELSE [next EXCEPT !.rows = @ (+) SetToBag({p})]

RECURSIVE InsertRows(_, _, _, _)
InsertRows(st, sch, batch, i) ==
    IF i > Len(batch) \/ ~st.ok THEN st
    ELSE InsertRows(InsertRow(st, sch, batch[i]), sch, batch, i + 1)

\* df.to_sql(..., if_exists='append') (lines 211-218)
InsertStatement(rows, serial, sch, batch) ==
    LET st == InsertRows([ok |-> TRUE, rows |-> rows, serial |-> serial],
                         sch, batch, 1)
    IN  [ok |-> st.ok,
         rows |-> IF st.ok THEN st.rows ELSE rows,
         serial |-> st.serial]

\* ingest_dataset with the append branch taken for every dataset
UseUpsert_Never == FALSE

\* ingest_dataset line 137: `if unique_columns:`
UseUpsert == unique_columns # {}

\* DataStorage.get_engine with create_engine called on every call
get_engine_Always(eng, creates) == creates + 1

\* DataStorage.get_engine: the engine is created when self.engine is None,
\* and the engine of the object is returned (engines are numbered from 1)
get_engine(eng, creates) == IF eng = 0 THEN creates + 1 ELSE eng

\* a storage operation takes its engine from get_engine
UseEngine ==
    LET e == get_engine(engine, engine_creates) IN
    /\ engine' = e
    /\ engine_creates' = IF e = engine THEN engine_creates ELSE engine_creates + 1
    /\ engine_used' = engine_used \cup {e}

\* metadata.create_all without the check for an existing table
create_all_NoCheck(defined, sch, tables, struct) ==
    [ok |-> defined \cap tables = {}, compiled |-> TRUE,
     tables |-> tables \cup defined,
     struct |-> IF "table" \in defined THEN TableStructure(sch) ELSE struct]

\* metadata.create_all(engine) (lines 69 and 181), for the tables defined
\* in self.metadata: a table that exists is left as it is, a table that
\* does not is created with its indexes and constraints
create_all(defined, sch, tables, struct) ==
    [ok |-> TRUE,
     \* CREATE TABLE cannot be compiled for a column without a type
     compiled |-> ~(sch.unknown_type /\ "table" \in defined \ tables),
     tables |-> tables \cup defined,
     struct |-> IF "table" \in defined \ tables
                THEN TableStructure(sch) ELSE struct]

\* no run of ingest_dataset takes place
StoreIdle ==
    /\ run_pc = "idle"
    /\ run_result = None
    /\ run_error = None
    /\ runs = MaxRuns
    /\ dry_run = FALSE
    /\ schema = [columns |-> {}, serial |-> {}, primary_key |-> {},
                 constraints |-> {}, indexes |-> {}, bad_type |-> FALSE,
                 unknown_type |-> FALSE]
    /\ unique_columns = {}
    /\ transformer = None
    /\ df_raw = <<>>
    /\ df = <<>>
    /\ fetched = FALSE
    /\ storage = FALSE
    /\ metadata = {}
    /\ engine = 0
    /\ engine_creates = 0
    /\ engine_used = {}
    /\ closed = FALSE
    /\ statements = FALSE
    /\ exported = FALSE
    /\ db_tables = {}
    /\ tbl_struct = NoTable
    /\ tbl_rows = EmptyBag
    /\ tbl_serial = 0
    /\ ledger = NoLedger
    /\ ledger_rows = 0
    /\ pre_rows = EmptyBag
    /\ steps = <<>>

\* an empty database and one dataset of the registry
StoreInit ==
    /\ run_pc = "idle"
    /\ run_result = None
    /\ run_error = None
    /\ runs = 0
    /\ dry_run = FALSE
    /\ \E d \in Datasets :
          /\ schema = [columns |-> d.columns, serial |-> d.serial,
                       primary_key |-> d.primary_key,
                       constraints |-> d.constraints,
                       indexes |-> d.indexes, bad_type |-> d.bad_type,
                       unknown_type |-> d.unknown_type]
          /\ unique_columns = d.unique_keys
          /\ transformer = d.transformer
    /\ df_raw = <<>>
    /\ df = <<>>
    /\ fetched = FALSE
    /\ storage = FALSE
    /\ metadata = {}
    /\ engine = 0
    /\ engine_creates = 0
    /\ engine_used = {}
    /\ closed = FALSE
    /\ statements = FALSE
    /\ exported = FALSE
    /\ db_tables = {}
    /\ tbl_struct = NoTable
    /\ tbl_rows = EmptyBag
    /\ tbl_serial = 0
    /\ ledger = NoLedger
    /\ ledger_rows = 0
    /\ pre_rows = EmptyBag
    /\ steps = <<>>

\* the run goes on with its next step
Continue(pc) ==
    /\ run_pc' = pc
    /\ UNCHANGED <<run_result, run_error>>

\* a return statement of ingest_dataset: the finally block is next
Return(result) ==
    /\ run_pc' = "finally"
    /\ run_result' = result
    /\ UNCHANGED run_error

\* an exception leaves the try block of ingest_dataset (lines 172-174):
\* the finally block is next
Abort(error) ==
    /\ run_pc' = "finally"
    /\ run_result' = "failed"
    /\ run_error' = error

\* ingest_dataset lines 47-75: the registry lookup and the construction of
\* fetcher, parser and DataStorage
BeginIngest ==
    /\ run_pc = "idle"
    /\ runs < MaxRuns
    /\ runs' = runs + 1
    /\ \E dataset_key \in {"known", "unknown", "disabled"} :
          /\ CASE dataset_key = "unknown" ->
                    \* line 56: raise ValueError
                    run_pc' = "finally" /\ run_result' = "failed" /\ run_error' = "config"
               [] dataset_key = "disabled" ->
                    \* line 60: return
                    run_pc' = "finally" /\ run_result' = "disabled" /\ run_error' = None
               [] dataset_key = "known" ->
                    run_pc' = "fetch" /\ run_result' = None /\ run_error' = None
          /\ storage' = (dataset_key = "known")
    /\ dry_run' \in BOOLEAN
    \* the type descriptors of the schema as this run reads them: as they
    \* were, or with a parameterized type of unknown base type ("DECIMAL(10,2)")
    /\ \E unknown \in BOOLEAN : schema' = [schema EXCEPT !.unknown_type = unknown]
    /\ df_raw' = <<>>
    /\ df' = <<>>
    /\ fetched' = FALSE
    /\ metadata' = {}
    /\ engine' = 0
    /\ engine_creates' = 0
    /\ engine_used' = {}
    /\ closed' = FALSE
    /\ statements' = FALSE
    /\ exported' = FALSE
    /\ pre_rows' = EmptyBag
    /\ steps' = <<>>
    /\ UNCHANGED <<unique_columns, transformer, dbVars>>
    /\ UNCHANGED notStore

\* ingest_dataset with the dry_run argument ignored
DryRunReturns_Never == FALSE

\* ingest_dataset line 108: `if dry_run:`
DryRunReturns == dry_run

\* ingest_dataset lines 77-99: the fetch raises, or returns a batch; an
\* empty batch ends the run
FetchData ==
    /\ run_pc = "fetch"
    /\ fetched' = TRUE
    /\ \/ /\ Abort("fetch")
          /\ UNCHANGED <<df_raw, steps>>
       \/ \E batch \in Batches(schema) :
             /\ df_raw' = batch
             /\ steps' = Append(steps, "fetch")
             /\ IF batch = <<>> THEN Return("empty") ELSE Continue("parse")
    /\ UNCHANGED <<runs, dry_run, configVars, df, storageVars, dbVars, pre_rows>>
    /\ UNCHANGED notStore

\* ingest_dataset lines 101-116: parser.parse transforms and validates the
\* batch; it raises when the batch lacks a required column.  A dry run
\* returns here.
ParseData ==
    /\ run_pc = "parse"
    /\ \E complete \in BOOLEAN :
          IF complete
          THEN /\ df' = TransformRows(transformer, df_raw)
               /\ steps' = Append(steps, "parse")
               /\ IF DryRunReturns THEN Return("dry_run") ELSE Continue("store")
          ELSE /\ Abort("parse")
               /\ UNCHANGED <<df, steps>>
    /\ UNCHANGED <<runs, dry_run, configVars, df_raw, fetched, storageVars,
                   dbVars, pre_rows>>
    /\ UNCHANGED notStore

\* DataStorage.enable_postgis: CREATE EXTENSION IF NOT EXISTS postgis
EnablePostgis ==
    /\ run_pc = "store"
    /\ UseEngine
    /\ \E connected \in BOOLEAN :
          IF connected
          THEN /\ statements' = TRUE
               /\ Continue("postgis_ready")
          ELSE /\ Abort("connection")
               /\ UNCHANGED statements
    /\ UNCHANGED <<runs, dry_run, configVars, df_raw, df, fetched, storage,
                   metadata, closed, exported, dbVars, pre_rows, steps>>
    /\ UNCHANGED notStore

\* DataStorage.create_metadata_table: the table is defined in
\* self.metadata and created when absent
CreateMetadataTable ==
    /\ run_pc = "postgis_ready"
    /\ UseEngine
    /\ metadata' = metadata \cup {"dataset_metadata"}
    /\ \E connected \in BOOLEAN :
          LET res == create_all(metadata', schema, db_tables, tbl_struct) IN
          IF ~connected
          THEN /\ Abort("connection")
               /\ UNCHANGED <<db_tables, tbl_struct, statements>>
          ELSE IF ~res.ok
          THEN /\ Abort("database")
               /\ statements' = TRUE
               /\ UNCHANGED <<db_tables, tbl_struct>>
          ELSE /\ db_tables' = res.tables
               /\ tbl_struct' = res.struct
               /\ statements' = TRUE
               /\ Continue("metadata_ready")
    /\ UNCHANGED <<runs, dry_run, configVars, df_raw, df, fetched, storage,
                   closed, exported, tbl_rows, tbl_serial, ledger, ledger_rows,
                   pre_rows, steps>>
    /\ UNCHANGED notStore

\* DataStorage.create_table_from_schema: the type descriptors are parsed
\* (int() raises ValueError on a malformed argument; a parameterized type
\* of unknown base type leaves col_type None, line 102), the table is
\* defined in self.metadata (Table raises when an index or a constraint
\* names a column that is not declared), and metadata.create_all creates
\* the tables that do not exist (CREATE TABLE cannot be compiled for a
\* column whose type is None)
CreateTableFromSchema ==
    /\ run_pc = "metadata_ready"
    /\ UseEngine
    /\ IF schema.bad_type \/ Undeclared(schema) # {}
       THEN /\ Abort("config")
            /\ UNCHANGED <<metadata, db_tables, tbl_struct, statements, steps>>
       ELSE /\ metadata' = metadata \cup {"table"}
            /\ \E connected \in BOOLEAN :
                 LET res == create_all(metadata', schema, db_tables, tbl_struct) IN
                 IF ~connected
                 THEN /\ Abort("connection")
                      /\ UNCHANGED <<db_tables, tbl_struct, statements, steps>>
                 ELSE IF ~res.compiled
                 THEN /\ Abort("compile")
                      /\ statements' = TRUE
                      /\ UNCHANGED <<db_tables, tbl_struct, steps>>
                 ELSE IF ~res.ok
                 THEN /\ Abort("database")
                      /\ statements' = TRUE
                      /\ UNCHANGED <<db_tables, tbl_struct, steps>>
                 ELSE /\ db_tables' = res.tables
                      /\ tbl_struct' = res.struct
                      /\ statements' = TRUE
                      /\ steps' = Append(steps, "provision")
                      /\ Continue("provisioned")
    /\ UNCHANGED <<runs, dry_run, configVars, df_raw, df, fetched, storage,
                   closed, exported, tbl_rows, tbl_serial, ledger, ledger_rows,
                   pre_rows>>
    /\ UNCHANGED notStore

\* _update_metadata as a plain INSERT
MetadataUpsert_Insert(rows) == rows + 1

\* _update_metadata lines 315-331: INSERT ... ON CONFLICT (dataset_id) DO
\* UPDATE on the primary key of dataset_metadata: the row of the dataset is
\* updated when there is one and inserted otherwise
MetadataUpsert(rows) == IF rows = 0 THEN 1 ELSE rows

\* DataStorage._update_metadata, as the last step of a write: the ledger
\* row is upserted, or the connection fails and the write raises
UpdateMetadata(connected) ==
    IF connected
    THEN /\ ledger' = [record_count |-> Len(df), status |-> "success"]
         /\ ledger_rows' = MetadataUpsert(ledger_rows)
         /\ steps' = steps \o <<"write", "ledger">>
         /\ Continue("written")
    ELSE /\ Abort("connection")
         /\ steps' = Append(steps, "write")
         /\ UNCHANGED <<ledger, ledger_rows>>

\* DataStorage.upsert_data, called when unique_columns is not empty
UpsertData ==
    /\ run_pc = "provisioned"
    /\ UseUpsert
    /\ UseEngine
    /\ pre_rows' = tbl_rows
    /\ IF df = <<>>
       THEN \* lines 257-258: return 0
            /\ Continue("written")
            /\ UNCHANGED <<tbl_rows, tbl_serial, ledger, ledger_rows, statements,
                           steps>>
       ELSE \E connected, ledger_connected \in BOOLEAN :
            LET res == UpsertStatement(tbl_rows, tbl_serial, schema,
                                       unique_columns, df) IN
            IF ~connected
            THEN /\ Abort("connection")
                 /\ UNCHANGED <<tbl_rows, tbl_serial, ledger, ledger_rows,
                                statements, steps>>
            ELSE IF ~res.ok
            THEN /\ Abort("database")
                 /\ tbl_serial' = res.serial
                 /\ statements' = TRUE
                 /\ UNCHANGED <<tbl_rows, ledger, ledger_rows, steps>>
            ELSE /\ tbl_rows' = res.rows
                 /\ tbl_serial' = res.serial
                 /\ statements' = TRUE
                 /\ UpdateMetadata(ledger_connected)
    /\ UNCHANGED <<runs, dry_run, configVars, df_raw, df, fetched, storage,
                   metadata, closed, exported, db_tables, tbl_struct>>
    /\ UNCHANGED notStore

\* DataStorage.store_data, called when unique_columns is empty
StoreData ==
    /\ run_pc = "provisioned"
    /\ ~UseUpsert
    /\ UseEngine
    /\ pre_rows' = tbl_rows
    /\ \E connected, ledger_connected \in BOOLEAN :
         LET res == InsertStatement(tbl_rows, tbl_serial, schema, df) IN
         IF ~connected
         THEN /\ Abort("connection")
              /\ UNCHANGED <<tbl_rows, tbl_serial, ledger, ledger_rows,
                             statements, steps>>
         ELSE IF ~res.ok
         THEN /\ Abort("database")
              /\ tbl_serial' = res.serial
              /\ statements' = TRUE
              /\ UNCHANGED <<tbl_rows, ledger, ledger_rows, steps>>
         ELSE /\ tbl_rows' = res.rows
              /\ tbl_serial' = res.serial
              /\ statements' = TRUE
              /\ UpdateMetadata(ledger_connected)
    /\ UNCHANGED <<runs, dry_run, configVars, df_raw, df, fetched, storage,
                   metadata, closed, exported, db_tables, tbl_struct>>
    /\ UNCHANGED notStore

\* DataStorage.export_to_parquet and the end of the try block
ExportToParquet ==
    /\ run_pc = "written"
    /\ \E written \in BOOLEAN :
          /\ exported' = written
          /\ steps' = IF written THEN Append(steps, "export") ELSE steps
          /\ IF written THEN Return("success") ELSE Abort("export")
    /\ UNCHANGED <<runs, dry_run, configVars, df_raw, df, fetched, storage,
                   metadata, engine, engine_creates, engine_used, closed,
                   statements, dbVars, pre_rows>>
    /\ UNCHANGED notStore

\* the finally block of ingest_dataset (lines 175-177): storage.close() when
\* the run has constructed its DataStorage; then the run returns or raises
Finally ==
    /\ run_pc = "finally"
    /\ closed' = storage
    /\ run_pc' = "idle"
    /\ df_raw' = <<>>
    /\ df' = <<>>
    /\ pre_rows' = EmptyBag
    /\ UNCHANGED <<run_result, run_error, runs, dry_run, configVars, fetched,
                   storage, metadata, engine, engine_creates, engine_used,
                   statements, exported, dbVars, steps>>
    /\ UNCHANGED notStore

Next ==
    \/ BeginIngest
    \/ FetchData
    \/ ParseData
    \/ EnablePostgis
    \/ CreateMetadataTable
    \/ CreateTableFromSchema
    \/ UpsertData
    \/ StoreData
    \/ ExportToParquet
    \/ Finally

(***************************************************************************)
(* Transform and validation: DataParser.parse on a raw batch.              *)
(***************************************************************************)
\* The cells of a frame.  A number carries its value; the other kinds are a
\* string that is not a number, a cell without a value in the raw data,
\* the float NaN, the float inf, and Python's None.
Num(n) == [k |-> "num", v |-> n]
Text == [k |-> "text", v |-> 0]
Missing == [k |-> "missing", v |-> 0]
NaN == [k |-> "nan", v |-> 0]
Inf == [k |-> "inf", v |-> 0]
Null == [k |-> "none", v |-> 0]

\* pd.to_numeric(..., errors='coerce')
to_numeric(c) == IF c.k = "num" THEN c ELSE NaN

\* series.replace({np.nan: None}) left out
replace_nan_Kept(c) == c

\* series.replace({np.nan: None})
replace_nan(c) == IF c.k = "nan" THEN Null ELSE c

\* n / d rounded to the nearest integer, for n >= 0 and d > 0
Round(n, d) == (2 * n + d) \div (2 * d)

\* ---- CensusACSTransformer.transform ----
\* census_config.variables and census_config.year of the dataset
census_variables ==
    [B19013_001E |-> "median_household_income",
     B17001_001E |-> "poverty_universe",
     B17001_002E |-> "poverty_count"]

census_year == 2023

\* lines 16-20: the two renames
CensusRename(c) ==
    IF c \in DOMAIN census_variables THEN census_variables[c]
    ELSE IF c = "zip code tabulation area" THEN "zip_code"
    ELSE c

numeric_cols == {"median_household_income", "poverty_universe", "poverty_count"}

cols_to_clean == numeric_cols \cup {"poverty_rate"}

\* line 33: df.loc[df[col] < 0, col] = np.nan
NegativeToNaN(c) == IF c.k = "num" /\ c.v < 0 THEN NaN ELSE c

\* lines 37-38: (poverty_count / poverty_universe) * 100 rounded to two
\* decimals, held in hundredths of a percent; float division by zero gives
\* NaN for 0 / 0 and inf otherwise
PovertyRate(count, universe) ==
    IF count.k # "num" \/ universe.k # "num" THEN NaN
    ELSE IF universe.v = 0 THEN (IF count.v = 0 THEN NaN ELSE Inf)
    ELSE Num(Round(count.v * 10000, universe.v))

CensusColumns(cols) ==
    LET renamed == {CensusRename(x) : x \in cols}
    IN  renamed
          \cup (IF {"poverty_count", "poverty_universe"} \subseteq renamed
                THEN {"poverty_rate"} ELSE {})
          \cup {"year"}

CensusRow(cols, r) ==
    LET raw(c) == r[CHOOSE x \in cols : CensusRename(x) = c]
        numeric(c) == IF c \in numeric_cols
                      THEN NegativeToNaN(to_numeric(raw(c))) ELSE raw(c)
        value(c) == CASE c = "year" -> Num(census_year)
                      [] c = "poverty_rate" ->
                            PovertyRate(numeric("poverty_count"),
                                        numeric("poverty_universe"))
                      [] OTHER -> numeric(c)
    IN  [c \in CensusColumns(cols) |->
            IF c \in cols_to_clean THEN replace_nan(value(c)) ELSE value(c)]

\* lines 10-52 (add_metadata adds columns of its own and is left out)
CensusACSTransform(frame) ==
    [columns |-> CensusColumns(frame.columns),
     rows |-> [i \in 1..Len(frame.rows) |-> CensusRow(frame.columns, frame.rows[i])]]

\* ---- FoodSupplyGapTransformer.transform ----
column_mapping ==
    [nta |-> "nta_code",
     food_insecure_percentage |-> "food_insecure_pct",
     vulnerable_population |-> "vulnerable_pop_score"]

FoodSupplyGapRename(c) ==
    IF c \in DOMAIN column_mapping THEN column_mapping[c] ELSE c

numeric_columns ==
    {"supply_gap_lbs", "food_insecure_pct", "unemployment_rate",
     "vulnerable_pop_score", "weighted_score", "rank"}

pct_columns == {"food_insecure_pct", "unemployment_rate"}

\* lines 65-68: a percentage below 0 or above 100 becomes NaN
InvalidPctToNaN(c) == IF c.k = "num" /\ (c.v < 0 \/ c.v > 100) THEN NaN ELSE c

\* lines 48-72 for one row
FoodSupplyGapRow(cols, r) ==
    LET raw(c) == r[CHOOSE x \in cols : FoodSupplyGapRename(x) = c]
        value(c) == IF c \in pct_columns THEN InvalidPctToNaN(to_numeric(raw(c)))
                    ELSE IF c \in numeric_columns \cup {"year"} THEN to_numeric(raw(c))
                    ELSE raw(c)
    IN  [c \in {FoodSupplyGapRename(x) : x \in cols} |-> replace_nan(value(c))]

\* the place of a missing rank in sort_values(..., na_position='last')
NaLast == 1000000000

\* lines 16-83 (standardize_column_names and add_metadata are left out):
\* clean the cells, keep the last row of each (year, nta_code), sort by
\* year and rank
FoodSupplyGapTransform(frame) ==
    LET clean == [i \in 1..Len(frame.rows) |->
                     FoodSupplyGapRow(frame.columns, frame.rows[i])]
        kept == drop_duplicates(clean, {"year", "nta_code"})
        keys == [i \in 1..Len(kept) |->
                   <<kept[i]["year"].v,
                     IF kept[i]["rank"].k = "num" THEN kept[i]["rank"].v ELSE NaLast>>]
    IN  [columns |-> {FoodSupplyGapRename(x) : x \in frame.columns},
         rows |-> sort_values(kept, keys)]

\* DataParser.parse line 63: self.transformer.transform(df)
Transform(class, frame) ==
    IF class = "FoodSupplyGapTransformer" THEN FoodSupplyGapTransform(frame)
    ELSE CensusACSTransform(frame)

\* ---- the raw batches and the validation rules of the model ----
\* the value the Census API uses for a suppressed figure
Sentinel == -666666666

RawColumnSets(class) ==
    IF class = "FoodSupplyGapTransformer"
    THEN {{"year", "nta", "rank", "food_insecure_percentage"},
          {"year", "nta", "rank"}}
    ELSE {{"zip code tabulation area", "B19013_001E", "B17001_001E", "B17001_002E"},
          {"zip code tabulation area", "B17001_001E", "B17001_002E"}}

RawValues(c) ==
    CASE c = "zip code tabulation area" -> {Num(10001), Num(10002)}
      [] c = "B19013_001E" -> {Num(50000), Num(Sentinel), Text, Missing}
      [] c = "B17001_001E" -> {Num(200), Num(0)}
      [] c = "B17001_002E" -> {Num(50), Num(Sentinel)}
      [] c = "year" -> {Num(2023)}
      [] c = "nta" -> {Num(1), Num(2)}
      [] c = "rank" -> {Num(1), Num(2), Num(Sentinel), Missing}
      [] c = "food_insecure_percentage" -> {Num(15), Num(150), Num(-5), Text}

\* the rows over the columns cols: every column holds one of its raw values
RECURSIVE RawRows(_)
RawRows(cols) ==
    IF cols = {} THEN {[c \in {} |-> Missing]}
    ELSE LET c0 == CHOOSE c \in cols : TRUE
         IN  {[c \in cols |-> IF c = c0 THEN v ELSE r[c]] :
                 r \in RawRows(cols \ {c0}), v \in RawValues(c0)}

\* The rules of the dataset's configuration that _validate_schema reads:
\* the required columns, the columns with a min or a max (ColumnSchema), and
\* allow_duplicates and unique_keys (ValidationConfig).  poverty_rate is
\* held in hundredths, so its max of 100 is 10000.
Rules(class) ==
    IF class = "FoodSupplyGapTransformer"
    THEN {[required |-> {"year", "nta_code", "food_insecure_pct"},
           mins |-> {[col |-> "rank", bound |-> 1]},
           maxs |-> {[col |-> "food_insecure_pct", bound |-> 100]},
           allow_duplicates |-> a,
           unique_keys |-> {"year", "nta_code"}] : a \in BOOLEAN}
    ELSE {[required |-> {"zip_code", "median_household_income"},
           mins |-> {[col |-> "poverty_universe", bound |-> 1]},
           maxs |-> {[col |-> "poverty_rate", bound |-> 10000]},
           allow_duplicates |-> a,
           unique_keys |-> {"year", "zip_code"}] : a \in BOOLEAN}

\* _validate_schema never raising
MissingRequired_Ignored(frame, rules) == {}

\* _validate_schema lines 86-89: the required columns the batch lacks
MissingRequired(frame, rules) == rules.required \ frame.columns

\* (df[col] < min) and (df[col] > max): None compares False, inf is above
\* every max
Below(c, bound) == c.k = "num" /\ c.v < bound
Above(c, bound) == (c.k = "num" /\ c.v > bound) \/ c.k = "inf"

\* _validate_schema lines 91-113: the warnings logged for a batch
Warnings(frame, rules) ==
    {[kind |-> "below_min", col |-> m.col] :
        m \in {m \in rules.mins :
                 /\ m.col \in frame.columns
                 /\ \E i \in 1..Len(frame.rows) : Below(frame.rows[i][m.col], m.bound)}}
    \cup
    {[kind |-> "above_max", col |-> m.col] :
        m \in {m \in rules.maxs :
                 /\ m.col \in frame.columns
                 /\ \E i \in 1..Len(frame.rows) : Above(frame.rows[i][m.col], m.bound)}}
    \cup
    (IF /\ ~rules.allow_duplicates
        /\ rules.unique_keys # {}
        /\ \E i, j \in 1..Len(frame.rows) :
              i # j /\ KeyOf(frame.rows[i], rules.unique_keys)
                         = KeyOf(frame.rows[j], rules.unique_keys)
     THEN {[kind |-> "duplicates", col |-> "unique_keys"]} ELSE {})

NoFrame == [columns |-> {}, rows |-> <<>>]

NoRules == [required |-> {}, mins |-> {}, maxs |-> {},
            allow_duplicates |-> TRUE, unique_keys |-> {}]

\* no batch is parsed
TransformIdle ==
    /\ tr_pc = "idle"
    /\ tr_class = None
    /\ tr_rules = NoRules
    /\ tr_raw = NoFrame
    /\ tr_out = NoFrame
    /\ tr_warnings = {}

\* a parser for one dataset and a raw batch handed to parse
TransformInit ==
    /\ tr_pc = "raw"
    /\ tr_class \in {"CensusACSTransformer", "FoodSupplyGapTransformer"}
    /\ tr_rules \in Rules(tr_class)
    /\ \E cols \in RawColumnSets(tr_class), n \in 0..MaxRaw :
          \E rows \in [1..n -> RawRows(cols)] :
             tr_raw = [columns |-> cols, rows |-> rows]
    /\ tr_out = NoFrame
    /\ tr_warnings = {}

\* DataParser.parse line 63
TransformBatch ==
    /\ tr_pc = "raw"
    /\ tr_out' = Transform(tr_class, tr_raw)
    /\ tr_pc' = "transformed"
    /\ UNCHANGED <<tr_class, tr_rules, tr_raw, tr_warnings>>
    /\ UNCHANGED notTransform

\* DataParser.parse lines 69-75 and _validate_schema: ValueError for a
\* missing required column (warnings logged before the raise are not
\* kept), else the warnings are logged and the batch is returned
ValidateSchema ==
    /\ tr_pc = "transformed"
    /\ IF MissingRequired(tr_out, tr_rules) # {}
       THEN /\ tr_pc' = "rejected"
            /\ UNCHANGED tr_warnings
       ELSE /\ tr_pc' = "validated"
            /\ tr_warnings' = Warnings(tr_out, tr_rules)
    /\ UNCHANGED <<tr_class, tr_rules, tr_raw, tr_out>>
    /\ UNCHANGED notTransform

TransformNext ==
    \/ TransformBatch
    \/ ValidateSchema

(***************************************************************************)
(* ingest_all_datasets.                                                    *)
(***************************************************************************)
\* how a call of ingest_dataset can end: it returns, or raises an exception
Outcomes == {"returned", "ValueError", "RequestException", "SQLAlchemyError"}

\* the registries of the model: entry i has key i and is enabled or not
Registries == UNION {[1..n -> BOOLEAN] : n \in 0..MaxDatasets}

\* DatasetRegistry.get_enabled_datasets, as the list of its keys: the keys
\* of the enabled entries in registry order
get_enabled_datasets(reg) ==
    Pick([i \in 1..Len(reg) |-> i], {i \in 1..Len(reg) : reg[i]}, 1)

\* ingest_all_datasets is not called
AllIdle ==
    /\ all_pc = "idle"
    /\ registry = <<>>
    /\ enabled_datasets = <<>>
    /\ all_i = 0
    /\ attempts = <<>>

\* lines 195-196
AllInit ==
    /\ all_pc = "looping"
    /\ registry \in Registries
    /\ enabled_datasets = get_enabled_datasets(registry)
    /\ all_i = 1
    /\ attempts = <<>>

\* one turn of the loop (lines 200-210): ingest_dataset returns
IngestReturned ==
    /\ all_pc = "looping"
    /\ all_i <= Len(enabled_datasets)
    /\ attempts' = Append(attempts, [key |-> enabled_datasets[all_i],
                                     outcome |-> "returned"])
    /\ all_i' = all_i + 1
    /\ UNCHANGED <<all_pc, registry, enabled_datasets>>
    /\ UNCHANGED notAll

\* the loop stops at the first exception
IngestRaised_Stops ==
    /\ all_pc = "looping"
    /\ all_i <= Len(enabled_datasets)
    /\ \E exc \in Outcomes \ {"returned"} :
          attempts' = Append(attempts, [key |-> enabled_datasets[all_i],
                                        outcome |-> exc])
    /\ all_pc' = "done"
    /\ UNCHANGED <<registry, enabled_datasets, all_i>>
    /\ UNCHANGED notAll

\* one turn of the loop: ingest_dataset raises, the exception is logged and
\* the loop continues (lines 207-210)
IngestRaised ==
    /\ all_pc = "looping"
    /\ all_i <= Len(enabled_datasets)
    /\ \E exc \in Outcomes \ {"returned"} :
          attempts' = Append(attempts, [key |-> enabled_datasets[all_i],
                                        outcome |-> exc])
    /\ all_i' = all_i + 1
    /\ UNCHANGED <<all_pc, registry, enabled_datasets>>
    /\ UNCHANGED notAll

\* the loop has run over every key: ingest_all_datasets returns
AllDone ==
    /\ all_pc = "looping"
    /\ all_i > Len(enabled_datasets)
    /\ all_pc' = "done"
    /\ UNCHANGED <<registry, enabled_datasets, all_i, attempts>>
    /\ UNCHANGED notAll

AllNext ==
    \/ IngestReturned
    \/ IngestRaised
    \/ AllDone

(***************************************************************************)
(* Download fetch: an archive that is downloaded and extracted             *)
(* (ShapefileFetcher) or a plain file (UrlFetcher), cached in the          *)
(* dataset's working directory.                                            *)
(***************************************************************************)
\* The content of a file: absent, or what call number `call` wrote, whole
\* or cut short.
Absent == [call |-> 0, whole |-> FALSE]

Written(n, whole) == [call |-> n, whole |-> whole]

\* the files of the working directory: the archive and its members for the
\* shapefile fetcher, the target file for the url fetcher
ZipPath == "download.zip"
ShpPath == "target.shp"
FilePath == "file.csv"
\* the members of the archive, in the order extractall writes them
Members == <<"target.shp", "target.dbf">>

Files == {ZipPath, ShpPath, "target.dbf", FilePath}

EmptyDir == [f \in Files |-> Absent]

exists(dir, f) == dir[f] # Absent

unlink(dir, f) == [dir EXCEPT ![f] = Absent]

\* the finally block of ShapefileFetcher.fetch_data left out
ZipCleanup_Skipped(dir) == dir

\* ShapefileFetcher.fetch_data lines 68-71: the finally block
ZipCleanup(dir) == IF exists(dir, ZipPath) THEN unlink(dir, ZipPath) ELSE dir

\* the cleanup of UrlFetcher.fetch_data's except block left out
PartialCleanup_Skipped(dir) == dir

\* UrlFetcher.fetch_data lines 53-54, in the except block
PartialCleanup(dir) == IF exists(dir, FilePath) THEN unlink(dir, FilePath) ELSE dir

\* zip_ref.extractall(temp_dir) that stops after k members: the members
\* before the k-th are written whole, the k-th (if cut is set) in part
Extracted(dir, n, k, cut) ==
    [f \in Files |->
        IF \E i \in 1..Len(Members) : Members[i] = f /\ i < k THEN Written(n, TRUE)
        ELSE IF cut /\ k \in 1..Len(Members) /\ Members[k] = f
             THEN Written(n, FALSE)
        ELSE dir[f]]

\* no fetcher of this kind is used
DownloadIdle ==
    /\ dl_pc = "idle"
    /\ dl_kind = None
    /\ dl_force = FALSE
    /\ dl_dir = EmptyDir
    /\ dl_calls = 0
    /\ dl_outcome = None
    /\ dl_attempted = FALSE
    /\ dl_before = EmptyDir
    /\ dl_loaded = Absent
    /\ dl_failed = {}

\* a fetcher on a working directory that does not exist yet
DownloadInit ==
    /\ dl_pc = "ready"
    /\ dl_kind \in {"shapefile", "url"}
    /\ dl_force = FALSE
    /\ dl_dir = EmptyDir
    /\ dl_calls = 0
    /\ dl_outcome = None
    /\ dl_attempted = FALSE
    /\ dl_before = EmptyDir
    /\ dl_loaded = Absent
    /\ dl_failed = {}

\* the path whose existence decides whether a call downloads
TargetPath == IF dl_kind = "shapefile" THEN ShpPath ELSE FilePath

\* the call raises a download error: the exception leaves fetch_data
DownloadRaises(error, dir) ==
    /\ dl_dir' = dir
    /\ dl_outcome' = error
    /\ dl_failed' = dl_failed \cup {dl_calls}
    /\ dl_pc' = "ready"
    /\ UNCHANGED <<dl_kind, dl_force, dl_calls, dl_attempted, dl_before, dl_loaded>>

\* the call goes on to its next step
DownloadContinues(pc, dir) ==
    /\ dl_dir' = dir
    /\ dl_pc' = pc
    /\ UNCHANGED <<dl_kind, dl_force, dl_calls, dl_outcome, dl_attempted,
                   dl_before, dl_loaded, dl_failed>>

\* fetch_data is called: ShapefileFetcher lines 40-51, UrlFetcher lines
\* 29-39. The download branch is taken when the target does not exist or
\* force is set.
BeginFetch ==
    /\ dl_pc = "ready"
    /\ dl_calls < MaxCalls
    /\ dl_calls' = dl_calls + 1
    /\ dl_force' \in BOOLEAN
    /\ dl_before' = dl_dir
    /\ dl_outcome' = None
    /\ dl_attempted' = (~exists(dl_dir, TargetPath) \/ dl_force')
    /\ dl_pc' = IF dl_attempted' THEN "request" ELSE "load"
    /\ UNCHANGED <<dl_kind, dl_dir, dl_loaded, dl_failed>>
    /\ UNCHANGED notDownload

\* ShapefileFetcher lines 56-57: requests.get and raise_for_status; an
\* error goes through the finally block
ShpRequest ==
    /\ dl_kind = "shapefile"
    /\ dl_pc = "request"
    /\ \E ok \in BOOLEAN :
          IF ok THEN DownloadContinues("write", dl_dir)
          ELSE DownloadRaises("download_error", ZipCleanup(dl_dir))
    /\ UNCHANGED notDownload

\* ShapefileFetcher lines 59-61: the archive is written chunk by chunk; the
\* write can stop in the middle (connection lost, disk full)
ShpWrite ==
    /\ dl_kind = "shapefile"
    /\ dl_pc = "write"
    /\ \E ok \in BOOLEAN :
          LET dir == [dl_dir EXCEPT ![ZipPath] = Written(dl_calls, ok)] IN
          IF ok THEN DownloadContinues("extract", dir)
          ELSE DownloadRaises("write_error", ZipCleanup(dir))
    /\ UNCHANGED notDownload

\* ShapefileFetcher lines 65-71: the archive is opened and extracted into
\* the working directory (k = 0: it cannot be opened; k within Members:
\* extractall stops at member k), and the finally block runs
ShpExtract ==
    /\ dl_kind = "shapefile"
    /\ dl_pc = "extract"
    /\ \E k \in 0..(Len(Members) + 1), cut \in BOOLEAN :
          LET dir == ZipCleanup(Extracted(dl_dir, dl_calls, k, cut)) IN
          IF k = Len(Members) + 1 THEN DownloadContinues("load", dir)
          ELSE DownloadRaises("extract_error", dir)
    /\ UNCHANGED notDownload

\* UrlFetcher lines 42-43 and 51-55: requests.get and raise_for_status; an
\* error goes through the except block
UrlRequest ==
    /\ dl_kind = "url"
    /\ dl_pc = "request"
    /\ \E ok \in BOOLEAN :
          IF ok THEN DownloadContinues("write", dl_dir)
          ELSE DownloadRaises("download_error", PartialCleanup(dl_dir))
    /\ UNCHANGED notDownload

\* UrlFetcher lines 45-55: the target file is opened for writing and
\* written chunk by chunk; an error goes through the except block
UrlWrite ==
    /\ dl_kind = "url"
    /\ dl_pc = "write"
    /\ \E ok \in BOOLEAN :
          LET dir == [dl_dir EXCEPT ![FilePath] = Written(dl_calls, ok)] IN
          IF ok THEN DownloadContinues("load", dir)
          ELSE DownloadRaises("write_error", PartialCleanup(dir))
    /\ UNCHANGED notDownload

\* ShapefileFetcher lines 76-89, UrlFetcher lines 59-69: the target is
\* looked for and loaded
LoadFile ==
    /\ dl_pc = "load"
    /\ IF exists(dl_dir, TargetPath)
       THEN /\ dl_loaded' = dl_dir[TargetPath]
            /\ dl_outcome' \in {"returned", "load_error"}
       ELSE /\ dl_outcome' = "not_found"
            /\ UNCHANGED dl_loaded
    /\ dl_pc' = "ready"
    /\ UNCHANGED <<dl_kind, dl_force, dl_dir, dl_calls, dl_attempted,
                   dl_before, dl_failed>>
    /\ UNCHANGED notDownload

DownloadNext ==
    \/ BeginFetch
    \/ ShpRequest
    \/ ShpWrite
    \/ ShpExtract
    \/ UrlRequest
    \/ UrlWrite
    \/ LoadFile

Init ==
    PagedIdle /\ ChunkIdle /\ StoreInit /\ TransformIdle /\ AllIdle
    /\ DownloadIdle

Spec == Init /\ [][Next]_vars

InitPaged ==
    PagedInit /\ ChunkIdle /\ StoreIdle /\ TransformIdle /\ AllIdle
    /\ DownloadIdle

InitChunk ==
    PagedIdle /\ ChunkInit /\ StoreIdle /\ TransformIdle /\ AllIdle
    /\ DownloadIdle

InitTransform ==
    PagedIdle /\ ChunkIdle /\ StoreIdle /\ TransformInit /\ AllIdle
    /\ DownloadIdle

InitAll ==
    PagedIdle /\ ChunkIdle /\ StoreIdle /\ TransformIdle /\ AllInit
    /\ DownloadIdle

InitDownload ==
    PagedIdle /\ ChunkIdle /\ StoreIdle /\ TransformIdle /\ AllIdle
    /\ DownloadInit

SpecPaged == InitPaged /\ [][PagedNext]_vars

\* the paginated fetch when every request gets its response: a step of the
\* fetch is one request with its response, so a fetch that can step does
SpecPagedFair == InitPaged /\ [][PagedNext]_vars /\ WF_vars(PagedNext)

SpecChunk == InitChunk /\ [][ChunkNext]_vars

SpecTransform == InitTransform /\ [][TransformNext]_vars

SpecAll == InitAll /\ [][AllNext]_vars

SpecDownload == InitDownload /\ [][DownloadNext]_vars


(***************************************************************************)
(* Properties of the paginated fetch (checked under SpecPaged).            *)
(***************************************************************************)
ServedRows == [i \in 1..Len(served) |-> served[i].body.rows]

IsFailure(r) == r \in {"Timeout", "RequestException"}

\* C1: the batch holds exactly the rows of the pages returned, in page
\* order; the pages returned are pages 1, 2, ... in order; a page shorter
\* than page_size (an empty one included) is the answer to the last request
\* ever issued, and the fetch returns exactly at such a page.
C1_BatchIsPagesReturned ==
    /\ all_data = Flatten(ServedRows)
    /\ \A i \in 1..Len(served) :
          /\ served[i].page = i
          /\ Len(served[i].body.rows) < PageSize
                => /\ i = Len(served)
                   /\ served[i].req = requests
                   /\ pg_pc = "returned"
    /\ pg_pc = "returned"
          => /\ served # <<>>
             /\ Len(served[Len(served)].body.rows) < PageSize

C1_Witness ==
    /\ pg_pc = "returned"
    /\ Len(served) = 3
    /\ Len(all_data) = 2 * PageSize + 1

\* C2: a 429 response neither advances the page counter nor uses up one of
\* the max_retries attempts: the attempt index counts only the timeouts and
\* errors of the current page, and the fetch never fails on a 429.
C2_RateLimitKeepsBudget ==
    /\ pg_pc = "fetching"
          => attempt = Cardinality({i \in 1..Len(responses) : IsFailure(responses[i])})
    /\ pg_pc = "failed" => IsFailure(responses[Len(responses)])

\* C3: after three timeouts in a row for one page the fetcher is still
\* fetching (a fourth attempt follows, so a success then makes the fetch
\* succeed), and the second backoff is strictly longer than the first.
C3_ThreeTimeoutsThenSuccess ==
    responses = <<"Timeout", "Timeout", "Timeout">>
        => /\ pg_pc = "fetching"
           /\ sleeps[2] > sleeps[1]

\* C4: when every attempt for a page fails with a timeout or a request
\* error, the page was requested exactly max_retries times, the backoffs
\* were 1 s then 2 s, the last error leaves fetch_from_api (no batch), and
\* nothing is requested afterwards.
C4_ExhaustedRetriesFail ==
    /\ [](pg_pc = "failed" /\ (\A i \in 1..Len(responses) : IsFailure(responses[i]))
            => /\ Len(responses) = max_retries
               /\ sleeps = <<1, 2>>
               /\ pg_error = responses[max_retries]
               /\ Len(served) = page_number - 1)
    /\ [][pg_pc = "failed" => UNCHANGED pagedVars]_vars

C4_Witness ==
    /\ pg_pc = "failed"
    /\ page_number = 2
    /\ responses = <<"Timeout", "RequestException", "Timeout">>

\* C7: a paginated fetch that returns normally got a usable body (a list or
\* an object with a 'data' field) for every page it was answered.
C7_CompleteOrFail ==
    pg_pc = "returned"
        => \A i \in 1..Len(served) : served[i].body.kind # "other"


\* the fetch has ended: fetch_from_api has returned a batch or raised
PagedDone == pg_pc \in {"returned", "failed"}

\* C28: when every request gets a response the paginated fetch ends
\* (returns or raises); at most max_retries (3) requests are issued per page
\* number whatever the responses are, and three 429 responses in a row for
\* one page end the fetch with the error "Max retries exceeded".
C28_PagedFetchTerminates ==
    /\ <>PagedDone
    /\ [](/\ requests <= 3 * page_number
          /\ Len(responses) <= 3
          /\ responses = <<"429", "429", "429">>
                => pg_pc = "failed" /\ pg_error = "MaxRetriesExceeded")

C28_Witness ==
    /\ pg_pc = "failed"
    /\ page_number = 2
    /\ responses = <<"429", "429", "429">>
    /\ requests = 4

\* the response at position i for the current page was handled as a timeout
\* at that position is: it was the request of attempt i - 1, followed by a
\* sleep of 2 ** (i - 1) seconds and another request while i < max_retries,
\* and raised when i = max_retries
HandledLikeTimeout(i) ==
    /\ i <= max_retries
    /\ IF i < max_retries
       THEN /\ Len(sleeps) >= i
            /\ sleeps[i] = Pow2(i - 1)
            /\ pg_pc = "failed" => Len(responses) > i
       ELSE /\ pg_pc = "failed"
            /\ pg_error = responses[i]
            /\ Len(sleeps) = max_retries - 1

\* C29: every HTTP error status other than 429, client errors as well as
\* server errors, is handled like a timeout: the page is requested again
\* after the backoff of the attempt, and the error leaves the fetch only
\* when the attempts are used up, never at the first attempt.
C29_ErrorStatusRetriedLikeTimeout ==
    /\ \A i \in 1..Len(responses) :
          responses[i] \in ErrorStatuses \cup {"Timeout"} => HandledLikeTimeout(i)
    /\ pg_pc = "failed" /\ pg_error \in ErrorStatuses
          => Len(responses) = max_retries

C29_Witness ==
    /\ pg_pc = "failed"
    /\ responses = <<"404", "500", "404">>
    /\ sleeps = <<1, 2>>
    /\ pg_error = "404"


(***************************************************************************)
(* Properties of the chunked fetch (checked under SpecChunk).              *)
(***************************************************************************)
\* the rows a response carries: everything after the header
BodyRows(data) == IF data = <<>> THEN <<>> ELSE Tail(data)

\* C5: for N keys and chunk size 50, request j (counting from 1) carries
\* keys (j-1)*50+1 .. min(j*50, N) of the input in input order; a fetch that
\* returns has issued exactly ceil(N/50) requests and returns the rows of
\* the responses concatenated in request order.
C5_ChunksCoverKeysInOrder ==
    LET N == Len(zip_codes) IN
    /\ \A j \in 1..Len(ck_requests) :
          ck_requests[j] = [k \in 1..(Min(j * 50, N) - (j - 1) * 50)
                                |-> zip_codes[(j - 1) * 50 + k]]
    /\ ck_pc = "returned"
          => /\ Len(ck_requests) = (N + 49) \div 50
             /\ ck_result = Flatten([j \in 1..Len(ck_outcomes)
                                        |-> BodyRows(ck_outcomes[j].data)])

C5_Witness ==
    /\ ck_pc = "returned"
    /\ Len(zip_codes) = 101
    /\ Len(ck_requests) = 3
    /\ Len(ck_result) = 100

\* C6: a failed chunk request is the last request of the fetch and was
\* issued once: the fetch has failed, returns no batch, and does nothing
\* more.
C6_ChunkFailureAborts ==
    /\ [](\A j \in 1..Len(ck_outcomes) :
            ~ck_outcomes[j].ok
                => /\ j = Len(ck_outcomes)
                   /\ ck_pc = "failed"
                   /\ ck_result = None
                   /\ Len(ck_requests) = ck_i \div chunk_size + 1)
    /\ [][ck_pc = "failed" => UNCHANGED chunkVars]_vars

C6_Witness ==
    /\ ck_pc = "failed"
    /\ Len(ck_requests) = 2
    /\ ck_all_data # <<>>
    /\ ck_all_data[1] # <<>>


\* the filter set the claim calls active: the caller's filters when they
\* are a non-empty dict, the configured ones otherwise
ActiveSet ==
    IF ck_filters.given /\ ck_filters.keys # {} THEN ck_filters ELSE ck_config

ChunkedMode == ck_pc \in {"fetching", "returned", "failed"}

\* C30: the active filter set is the caller's filters when non-empty and
\* the configured filters otherwise, never a merge; the fetch is chunked
\* exactly when the active set has 'zip_codes', and then over that set's
\* list; otherwise (caller filters without 'zip_codes' included, whatever
\* list is configured) exactly one request for the whole geography is
\* issued; an empty zip code list gives an empty batch and no request.
C30_ActiveFilters ==
    /\ ChunkedMode <=> "zip_codes" \in ActiveSet.keys
    /\ ChunkedMode => zip_codes = ActiveSet.zip_codes /\ ck_whole = <<>>
    /\ ~ChunkedMode
          => /\ ck_requests = <<>>
             /\ Len(ck_whole) = (IF ck_pc = "fetching_all" THEN 0 ELSE 1)
    /\ ChunkedMode /\ ActiveSet.zip_codes = <<>>
          => /\ ck_requests = <<>>
             /\ ck_pc # "failed"
             /\ ck_pc = "returned" => ck_result = <<>>

C30_Witness ==
    /\ ck_pc = "returned_all"
    /\ ck_filters.keys = {"state"}
    /\ Len(ck_config.zip_codes) = chunk_size + 1
    /\ Len(ck_whole) = 1

\* an empty configured list is the active one and the fetch has returned
C30_EmptyListWitness ==
    /\ ck_pc = "returned"
    /\ ~ck_filters.given
    /\ ck_config.keys = {"zip_codes"}
    /\ ck_config.zip_codes = <<>>


(***************************************************************************)
(* Properties of the store step (checked under Spec).                      *)
(***************************************************************************)
SameKey(x, r, K) == \A c \in K : x[c] = r[c]

\* C8: for a dataset that declares unique-key columns, after any sequence
\* of runs (first runs, re-runs, overlapping keys, failed runs) the table
\* holds at most one row for each (non-NULL) value of the unique key.
C8_OneRowPerKey ==
    unique_columns # {}
        => \A x \in BagToSet(tbl_rows) :
              /\ CopiesIn(x, tbl_rows) = 1
              /\ \A y \in BagToSet(tbl_rows) :
                    SameKey(x, y, unique_columns) => x = y

C8_Witness ==
    /\ unique_columns # {}
    /\ runs = 3
    /\ run_pc = "written"
    /\ Len(df) = 2
    /\ BagCardinality(pre_rows) = 2
    /\ BagCardinality(tbl_rows) = 2
    /\ tbl_rows # pre_rows

\* C9: after an upsert that went through, each incoming row has exactly
\* one stored row with its key.  Where a row with that key was stored
\* before, the stored row keeps its key values and has the incoming value in
\* every other column of the batch (a SERIAL column gets the value generated
\* for the incoming row), unless the table has no column outside the key
\* set: then the stored row is unchanged.  Where no such row was stored, the
\* incoming row is inserted.
C9_UpsertOverwritesNonKey ==
    (run_pc = "written" /\ UseUpsert /\ df # <<>>)
        => \A i \in 1..Len(df) :
            LET r == df[i]
                K == unique_columns
                olds == {x \in BagToSet(pre_rows) : SameKey(x, r, K)}
                news == {x \in BagToSet(tbl_rows) : SameKey(x, r, K)}
            IN  /\ Cardinality(news) = 1
                /\ \A new \in news :
                     IF olds = {}
                     THEN \A c \in BatchColumns(schema) : new[c] = r[c]
                     ELSE \A old \in olds :
                            IF schema.columns \subseteq K
                            THEN new = old
                            ELSE /\ \A c \in BatchColumns(schema) \ K : new[c] = r[c]
                                 /\ \A c \in K : new[c] = old[c]
                                 /\ \A c \in schema.serial : new[c] > old[c]

C9_Witness ==
    /\ run_pc = "written"
    /\ UseUpsert
    /\ \E i \in 1..Len(df) : \E old \in BagToSet(pre_rows) :
          /\ SameKey(old, df[i], unique_columns)
          /\ "income" \in schema.columns
          /\ old["income"] # df[i]["income"]
    /\ \E i \in 1..Len(df) :
          \A old \in BagToSet(pre_rows) : ~SameKey(old, df[i], unique_columns)

\* C10: executing the upsert of the batch again, right after an upsert of
\* it went through, succeeds and leaves the table with the same rows
\* (the same number of rows, the same contents).
C10_UpsertTwiceIsOnce ==
    (run_pc = "written" /\ UseUpsert /\ df # <<>>)
        => LET again == UpsertStatement(tbl_rows, tbl_serial, schema,
                                        unique_columns, df)
           IN  /\ again.ok
               /\ again.rows = tbl_rows

\* the same, for the tables without a server-generated column
C10_WithoutSerial ==
    (run_pc = "written" /\ UseUpsert /\ df # <<>> /\ schema.serial = {})
        => LET again == UpsertStatement(tbl_rows, tbl_serial, schema,
                                        unique_columns, df)
           IN  /\ again.ok
               /\ again.rows = tbl_rows

(***************************************************************************)
(* Properties of a run of ingest_dataset (checked under Spec).             *)
(***************************************************************************)
\* the input batch of the end-to-end scenario
C11_Input ==
    <<[year |-> 2023, zip_code |-> 10001, income |-> 50000],
      [year |-> 2023, zip_code |-> 10001, income |-> 52000]>>

\* C11: for a dataset whose unique key (year, zip_code) has its unique
\* index, a run that fetched the two rows (2023, 10001, 50000) and
\* (2023, 10001, 52000), with the batch complete, the database reachable
\* and the export written, ends without error and leaves exactly one stored
\* row for (2023, 10001), with income 52000.
C11_LastDuplicateWins ==
    (/\ run_pc = "finally"
     /\ unique_columns = {"year", "zip_code"}
     /\ unique_columns \in UniqueIndexes(schema)
     /\ ~schema.bad_type
     /\ ~dry_run
     /\ df_raw = C11_Input
     /\ run_error \notin {"parse", "connection", "export"})
        => /\ run_result = "success"
           /\ LET hits == {x \in BagToSet(tbl_rows) :
                             x["year"] = 2023 /\ x["zip_code"] = 10001}
              IN  /\ Cardinality(hits) = 1
                  /\ \A x \in hits : CopiesIn(x, tbl_rows) = 1 /\ x["income"] = 52000


\* C13: a call of create_metadata_table or create_table_from_schema for a
\* table that an earlier call with the same schema has created, on the same
\* DataStorage or on a new one, ends without an error of the database and
\* leaves the tables, their columns, indexes and uniqueness constraints,
\* and the stored rows as they were.
C13_ProvisioningIdempotent ==
    [][(/\ run_pc' # run_pc
        /\ \/ run_pc = "postgis_ready" /\ "dataset_metadata" \in db_tables
           \/ run_pc = "metadata_ready" /\ "table" \in db_tables)
          => /\ run_error' \in {None, "connection"}
             /\ UNCHANGED dbVars]_vars

C13_Witness ==
    /\ run_pc = "provisioned"
    /\ runs = 3
    /\ db_tables = {"dataset_metadata", "table"}
    /\ tbl_struct = TableStructure(schema)
    /\ tbl_struct.indexes # {}
    /\ tbl_struct.uniques # {}
    /\ BagCardinality(tbl_rows) = 2

\* C14: when store_data or upsert_data has returned normally, for any
\* batch, the empty one included, the dataset's ledger row holds the number
\* of rows of the batch as record_count and status 'success'.
C14_LedgerAfterEveryWrite ==
    run_pc = "written"
        => ledger = [record_count |-> Len(df), status |-> "success"]

\* C18: in a run of ingest_dataset the engine is created at most once and
\* not before the first storage operation, every storage operation uses
\* that one engine, and when the run is over (normal completion, empty
\* fetch, dry run or exception) the DataStorage it constructed is closed.
C18_EngineScopedToRun ==
    /\ engine_creates <= 1
    /\ engine_used \subseteq {engine} \ {0}
    /\ engine \in {0, 1}
    /\ run_pc \in {"fetch", "parse", "store"} => engine = 0
    /\ run_result \in {"empty", "dry_run", "disabled"} => engine = 0
    /\ run_pc \notin {"fetch", "parse", "store", "finally", "idle"} => engine_used = {engine}
    /\ run_pc = "idle" => closed = storage
    /\ run_pc # "idle" => ~closed

C18_Witness ==
    /\ run_pc = "idle"
    /\ run_result = "failed"
    /\ run_error = "database"
    /\ storage
    /\ closed
    /\ engine = 1
    /\ engine_creates = 1

\* C19: a configuration error (an unknown dataset key, a malformed type
\* descriptor in the schema) ends the run before any request to the source
\* and before any statement on the database.
C19_ConfigErrorBeforeActivity ==
    run_error = "config" => ~fetched /\ ~statements

\* C20: a dry run fetches and transforms, executes no statement on the
\* database (no extension, no table, no insert or upsert, no ledger update),
\* creates no engine and writes no export file, whatever the dataset and the
\* outcome of the fetch; the database is unchanged while it runs.
C20_DryRunStoresNothing ==
    /\ [](dry_run => /\ ~statements
                     /\ ~exported
                     /\ engine = 0
                     /\ run_pc \in {"idle", "fetch", "parse", "finally"}
                     /\ run_result = "dry_run"
                           => fetched /\ (run_pc = "finally" => df = TransformRows(transformer, df_raw)))
    /\ [][dry_run /\ dry_run' => UNCHANGED dbVars]_vars

C20_Witness ==
    /\ dry_run
    /\ run_pc = "finally"
    /\ run_result = "dry_run"
    /\ Len(df_raw) = 2
    /\ Len(df) = 1
    /\ BagCardinality(tbl_rows) = 2
    /\ ledger.status = "success"


(***************************************************************************)
(* Properties of transform and validation (checked under SpecTransform).   *)
(***************************************************************************)
\* the canonical row that the transformer makes of raw row i alone
CleanRow(i) ==
    IF tr_class = "FoodSupplyGapTransformer"
    THEN FoodSupplyGapRow(tr_raw.columns, tr_raw.rows[i])
    ELSE CensusRow(tr_raw.columns, tr_raw.rows[i])

\* the raw cell behind column c of raw row i
RawCell(i, c) ==
    tr_raw.rows[i][CHOOSE x \in tr_raw.columns :
                      IF tr_class = "FoodSupplyGapTransformer"
                      THEN FoodSupplyGapRename(x) = c
                      ELSE CensusRename(x) = c]

\* the last raw row of each key survives the transform, and no key is left
\* with two rows
LastWins ==
    LET K == tr_rules.unique_keys
        out == tr_out.rows
        n == Len(tr_raw.rows)
    IN  /\ \A p, q \in 1..Len(out) :
              p # q => KeyOf(out[p], K) # KeyOf(out[q], K)
        /\ \A i \in 1..n :
              (\A j \in (i + 1)..n : KeyOf(CleanRow(j), K) # KeyOf(CleanRow(i), K))
                  => \E p \in 1..Len(out) : out[p] = CleanRow(i)

\* C12: for a dataset that disallows duplicates (allow_duplicates false,
\* unique keys declared) and every raw batch, the output of transform has no
\* two rows with the same unique key, and the row that survives for a key is
\* the last row of that key in input order.
C12_TransformKeepsLast ==
    (tr_pc # "raw" /\ ~tr_rules.allow_duplicates /\ tr_rules.unique_keys # {})
        => LastWins

\* the same for FoodSupplyGapTransformer alone
C12_FoodSupplyGapKeepsLast ==
    (tr_pc # "raw" /\ tr_class = "FoodSupplyGapTransformer") => LastWins


\* C15 as stated: validation never raises and never changes the batch: a
\* missing required column, out-of-range values and residual duplicate keys
\* are warnings only, and the batch handed on is the one transform produced.
C15_ValidationNeverRaises ==
    /\ tr_pc # "rejected"
    /\ tr_pc = "validated" => tr_out = Transform(tr_class, tr_raw)

\* C15 amended: validation never changes the batch; it raises exactly when
\* a column marked required is missing from the batch; out-of-range values
\* and residual duplicate keys are warnings only, whatever their number.
C15_RaisesOnlyOnMissingRequired ==
    /\ tr_pc \in {"validated", "rejected"} => tr_out = Transform(tr_class, tr_raw)
    /\ tr_pc = "rejected" => ~(tr_rules.required \subseteq tr_out.columns)
    /\ tr_pc = "validated" =>
          /\ tr_rules.required \subseteq tr_out.columns
          /\ \A w \in tr_warnings : w.kind \in {"below_min", "above_max", "duplicates"}
          /\ (\E i, j \in 1..Len(tr_out.rows) :
                 /\ i # j
                 /\ ~tr_rules.allow_duplicates
                 /\ KeyOf(tr_out.rows[i], tr_rules.unique_keys)
                      = KeyOf(tr_out.rows[j], tr_rules.unique_keys))
                => [kind |-> "duplicates", col |-> "unique_keys"] \in tr_warnings

C15_Witness ==
    /\ tr_pc = "rejected"
    /\ tr_out.rows # <<>>
    /\ "median_household_income" \notin tr_out.columns

\* a batch with out-of-range values and duplicate keys passes validation
C15_WarningsOnly ==
    /\ tr_pc = "validated"
    /\ Cardinality(tr_warnings) = 3

\* the numeric columns of the transformer's own list
NumericColumns ==
    IF tr_class = "FoodSupplyGapTransformer" THEN numeric_columns ELSE numeric_cols

\* what holds of the cells of every transformer
NullForUnusable(negative(_, _)) ==
    LET out == tr_out.rows IN
    /\ \A p \in 1..Len(out) : \E i \in 1..Len(tr_raw.rows) : out[p] = CleanRow(i)
    /\ \A p \in 1..Len(out) : \A i \in 1..Len(tr_raw.rows) :
          out[p] = CleanRow(i)
             => \A c \in NumericColumns \cap tr_out.columns :
                   (RawCell(i, c).k \in {"missing", "text"} \/ negative(c, RawCell(i, c)))
                       => out[p][c] = Null
    /\ \A p \in 1..Len(out) :
          \A c \in (NumericColumns \cup {"poverty_rate"}) \cap tr_out.columns :
             out[p][c].k # "nan"

IsSentinel(c, cell) == cell = Num(Sentinel)

IsNulledNegative(c, cell) ==
    /\ cell.k = "num"
    /\ IF tr_class = "FoodSupplyGapTransformer"
       THEN c \in pct_columns /\ (cell.v < 0 \/ cell.v > 100)
       ELSE cell.v < 0

C17_EveryEnabledDatasetAttempted ==
    /\ \A j \in 1..Len(attempts) : attempts[j].key = enabled_datasets[j]
    /\ Len(attempts) = all_i - 1 \/ all_pc = "done"
    /\ all_pc = "done" => Len(attempts) = Len(enabled_datasets)
    /\ \A key \in 1..Len(registry) :
          Cardinality({j \in 1..Len(enabled_datasets) : enabled_datasets[j] = key})
              = IF registry[key] THEN 1 ELSE 0

C17_Witness ==
    /\ all_pc = "done"
    /\ registry = <<TRUE, FALSE, TRUE>>
    /\ Len(attempts) = 2
    /\ attempts[1].outcome = "SQLAlchemyError"
    /\ attempts[2].outcome = "returned"


(***************************************************************************)
(* Properties of the download fetch (checked under SpecDownload).          *)
(***************************************************************************)
\* the errors of the download branch: the request, the write, the extraction
DownloadErrors == {"download_error", "write_error", "extract_error"}

\* C22: after every call of ShapefileFetcher.fetch_data that attempted a
\* download, whether it returned or raised, and wherever it failed,
\* download.zip does not exist in the working directory.
C22_ArchiveRemoved ==
    dl_kind = "shapefile" /\ dl_attempted /\ dl_pc \in {"ready", "load"}
        => ~exists(dl_dir, ZipPath)

C22_Witness ==
    /\ dl_kind = "shapefile"
    /\ dl_pc = "ready"
    /\ dl_attempted
    /\ dl_outcome = "write_error"
    /\ dl_calls = 2

\* C23: when a download-based fetch fails, the working directory is as it
\* was before the call (nothing extracted by the failed call, no partial
\* file, a cached file still there with its content), and no later call
\* loads what a failed call wrote.
C23_FailedDownloadRollsBack ==
    /\ dl_pc = "ready" /\ dl_outcome \in DownloadErrors => dl_dir = dl_before
    /\ dl_loaded.call \notin dl_failed

\* C24: when the download of the plain-file fetch fails (request, status
\* or write), the call ends with that error, has loaded nothing, and the
\* target file does not exist; a following call without force downloads
\* again.
C24_FailedDownloadLeavesNoFile ==
    /\ [](dl_kind = "url" /\ dl_pc = "ready" /\ dl_calls \in dl_failed
            => /\ dl_outcome \in {"download_error", "write_error"}
               /\ ~exists(dl_dir, FilePath)
               /\ dl_loaded.call # dl_calls)
    /\ [][dl_kind = "url" /\ dl_pc = "ready" /\ dl_calls \in dl_failed
            /\ dl_calls' = dl_calls + 1 /\ ~dl_force'
            => dl_pc' = "request"]_vars

C24_Witness ==
    /\ dl_kind = "url"
    /\ dl_pc = "request"
    /\ ~dl_force
    /\ dl_calls = 2
    /\ dl_failed = {1}

\* the write of the plain-file fetch failed and the call has raised
C24_WriteFailedWitness ==
    /\ dl_kind = "url"
    /\ dl_pc = "ready"
    /\ dl_outcome = "write_error"
    /\ ~exists(dl_dir, FilePath)

\* ------------------------------------------------------------------------
\* Provisioning errors, conflict targets, the ledger, the order of steps
\* ------------------------------------------------------------------------

\* the schema has a parameterized type descriptor that cannot be parsed, or
\* an index or UNIQUE constraint on a column it does not declare
BadSchema ==
    schema.bad_type \/ schema.unknown_type \/ Undeclared(schema) # {}

\* create_table_from_schema is called and returns or raises
ProvisioningStep == run_pc = "metadata_ready" /\ run_pc' # "metadata_ready"

ProvisioningFails ==
    /\ run_pc' = "finally"
    /\ run_result' = "failed"
    /\ db_tables' = db_tables
    /\ tbl_struct' = tbl_struct

\* C21: provisioning fails with an error, and creates no table, whenever
\* the schema has a column whose parameterized type descriptor cannot be
\* parsed (unknown base type with arguments, or non-integer arguments) or
\* an index or uniqueness constraint that names an undeclared column.
C21_BadSchemaFailsProvisioning ==
    [][ProvisioningStep /\ BadSchema => ProvisioningFails]_vars

\* What does hold of create_table_from_schema: non-integer arguments and an
\* undeclared index or constraint column always fail, and no bad schema
\* ever creates a table; an unknown base type fails where the table does
\* not exist yet.
C21_FailsUnlessTableExists ==
    [][ProvisioningStep /\ BadSchema
         => /\ db_tables' = db_tables
            /\ tbl_struct' = tbl_struct
            /\ (schema.bad_type \/ Undeclared(schema) # {} \/ "table" \notin db_tables)
                  => ProvisioningFails]_vars

\* an unknown base type in the schema of a table that an earlier run
\* created: create_table_from_schema has returned normally
C21_UnknownTypeProvisioned ==
    /\ run_pc = "provisioned"
    /\ schema.unknown_type
    /\ "table" \in db_tables

\* the unique indexes of the table as provisioning created it
ProvisionedUniques ==
    tbl_struct.uniques
        \cup (IF tbl_struct.primary_key = {} THEN {} ELSE {tbl_struct.primary_key})

\* upsert_data is called with records to write
UpsertCall ==
    /\ run_pc = "provisioned"
    /\ UseUpsert
    /\ df # <<>>
    /\ run_pc' # "provisioned"

\* C25: whenever the pipeline performs an upsert, the conflict target is
\* the column list of a uniqueness constraint or primary key that
\* provisioning created on the table from the dataset's schema; no upsert
\* is issued against columns without a uniqueness constraint.
C25_ConflictTargetIsProvisionedConstraint ==
    [][UpsertCall => /\ unique_columns \in UniqueIndexes(schema)
                     /\ unique_columns \in ProvisionedUniques]_vars

\* an upsert on unique_keys that no constraint of the table covers has been
\* issued and rejected by the server
C25_UpsertWithoutConstraint ==
    /\ run_pc = "finally"
    /\ run_error = "database"
    /\ UseUpsert
    /\ unique_columns \notin ProvisionedUniques
    /\ "table" \in db_tables
    /\ Undeclared(schema) = {}

\* the steps that the run has completed
StepsDone == {steps[i] : i \in 1..Len(steps)}

\* a run ends in an error before its write has completed
FailsBeforeLedger ==
    /\ run_pc # "finally"
    /\ run_pc' = "finally"
    /\ run_result' = "failed"
    /\ run_pc # "written"

\* C26: over any sequence of successful and failed runs the ledger holds at
\* most one row for the dataset, a row once present is never removed, and
\* a run that fails before or during its write leaves the row as it was.
C26_LedgerOneRowKept ==
    /\ [](/\ ledger_rows <= 1
          /\ ledger_rows = 0 <=> ledger = NoLedger)
    /\ [][/\ ledger_rows' >= ledger_rows
          /\ FailsBeforeLedger => ledger' = ledger /\ ledger_rows' = ledger_rows
          /\ ledger' # ledger => run_pc = "provisioned" /\ run_pc' = "written"]_vars

\* a later run has failed during its write while the ledger held the row
\* of an earlier run
C26_Witness ==
    /\ run_pc = "finally"
    /\ run_result = "failed"
    /\ "provision" \in StepsDone
    /\ "ledger" \notin StepsDone
    /\ ledger_rows = 1
    /\ ledger.status = "success"
    /\ runs >= 2

\* a second successful run has updated the row of the first
C26_UpdatedWitness ==
    /\ run_pc = "written"
    /\ "ledger" \in StepsDone
    /\ runs >= 2
    /\ ledger_rows = 1
    /\ BagCardinality(pre_rows) > 0

\* the steps of ingest_dataset in their order
StepOrder == <<"fetch", "parse", "provision", "write", "ledger", "export">>

\* C27: in one run the steps occur in the order fetch, transform/validate,
\* provision, write, ledger update, export, each starting only after the
\* previous one completed without error; the export file is written only
\* if the run's write and ledger update succeeded, and a failed export
\* does not undo the committed write.
C27_StepsInOrder ==
    /\ [](/\ steps = SubSeq(StepOrder, 1, Len(steps))
          /\ exported => {"write", "ledger"} \subseteq StepsDone)
    /\ [][run_pc = "written" /\ run_error' = "export"
            => UNCHANGED dbVars]_vars

\* What does hold: the steps that complete are in the order of StepOrder,
\* and only upsert_data of an empty batch lets the export follow without a
\* write and a ledger update.
C27_InOrderButForEmptyUpsert ==
    /\ [](/\ \A i, j \in 1..Len(steps) :
                i < j => \E a, b \in 1..Len(StepOrder) :
                            a < b /\ StepOrder[a] = steps[i] /\ StepOrder[b] = steps[j]
          /\ steps # SubSeq(StepOrder, 1, Len(steps)) => UseUpsert /\ df = <<>>
          /\ exported /\ (~UseUpsert \/ df # <<>>)
                => {"write", "ledger"} \subseteq StepsDone)
    /\ [][run_pc = "written" /\ run_error' = "export"
            => UNCHANGED dbVars]_vars

\* the export of a run whose upsert_data returned before any write
C27_ExportWithoutWrite ==
    /\ exported
    /\ steps = <<"fetch", "parse", "provision", "export">>

=============================================================================
